---- MODULE Spec2Model ----
(***************************************************************************)
(* Local execution of a compiled pipeline graph: run_dag of                *)
(* kfp/local/dag_orchestrator.py, with its I/O store, its task sequencer   *)
(* and the collaborators that run one step.                                *)
(***************************************************************************)
EXTENDS Integers, Sequences, FiniteSets, TLC

VARIABLES
    pipeline,   \* the compiled graph handed to the top-level run_dag call
    stores,     \* heap of IOStore instances, indexed by the order of creation
    stack,      \* run_dag activations, the innermost last
    inflight,   \* leaf steps a collaborator is running
    log,        \* history of dispatches, store writes and returns
    result,     \* what the top-level caller got
    codec       \* a call of the value codec or of the output normalizer

vars == <<pipeline, stores, stack, inflight, log, result, codec>>

----------------------------------------------------------------------------
(* Bounds of the model *)

\* Deepest graph nesting: level 1 is the root graph.
MaxDepth == 2
\* Step outputs and arguments are the integers 0..MaxVal.
MaxVal == 1
\* Deepest nesting of lists and structures in a value handed to the codec.
MaxNest == 2

----------------------------------------------------------------------------
(* Values *)

\* Native (Python) values, tagged with their Python type. A float holds its
\* number of halves (3 is 1.5, 6 is 3.0), an int its number of units.
PyNone == [t |-> "NoneType", v |-> 0]
PyFloat(n) == [t |-> "float", v |-> n]
PyInt(n) == [t |-> "int", v |-> n]
PyStr(s) == [t |-> "str", v |-> s]
PyBool(b) == [t |-> "bool", v |-> b]
PyList(items) == [t |-> "list", v |-> items]
PyDict(fields) == [t |-> "dict", v |-> fields]

\* Wire values (struct_pb2.Value): the oneof field that is set, and its payload.
\* number_value is a double, held as its number of halves.
NumberValue(n) == [kind |-> "number_value", val |-> n]
NullValue == [kind |-> "null_value", val |-> 0]
StringValue(s) == [kind |-> "string_value", val |-> s]
BoolValue(b) == [kind |-> "bool_value", val |-> b]
StructValue(fields) == [kind |-> "struct_value", val |-> fields]
ListValue(values) == [kind |-> "list_value", val |-> values]
\* A Value with no field of the oneof set.
UnsetValue == [kind |-> "", val |-> 0]

\* What a raising call has in place of a result: the exception and its message.
ValueError(msg) == [t |-> "raise", v |-> msg]
Raises == ValueError("")

IsRaise(x) == x.t = "raise"

Restrict(f, S) == [x \in S |-> f[x]]

RECURSIVE pb2_value_to_python(_)
RECURSIVE pb2_struct_to_python(_)

\* Mutant: a number_value without a fractional part is taken for an int.
Pb2ValueToPythonWholeAsInt(value) ==
    CASE value.kind = "null_value" -> PyNone
      [] value.kind = "number_value" ->
            IF value.val % 2 = 0 THEN PyInt(value.val \div 2) ELSE PyFloat(value.val)
      [] value.kind = "string_value" -> PyStr(value.val)
      [] value.kind = "bool_value" -> PyBool(value.val)
      [] value.kind = "struct_value" -> pb2_struct_to_python(value.val)
      [] value.kind = "list_value" ->
            LET items == [i \in 1..Len(value.val) |-> pb2_value_to_python(value.val[i])]
            IN IF \E i \in 1..Len(items) : IsRaise(items[i])
               THEN ValueError("Unknown value type")
               ELSE PyList(items)
      [] OTHER -> ValueError("Unknown value type")

\* Mutant: the fields are tried in another order and a bool_value is taken for
\* a number.
Pb2ValueToPythonBoolAsNumber(value) ==
    CASE value.kind = "null_value" -> PyNone
      [] value.kind = "number_value" -> PyFloat(value.val)
      [] value.kind = "bool_value" -> PyFloat(IF value.val THEN 2 ELSE 0)
      [] value.kind = "string_value" -> PyStr(value.val)
      [] value.kind = "struct_value" -> pb2_struct_to_python(value.val)
      [] value.kind = "list_value" ->
            LET items == [i \in 1..Len(value.val) |-> pb2_value_to_python(value.val[i])]
            IN IF \E i \in 1..Len(items) : IsRaise(items[i])
               THEN ValueError("Unknown value type")
               ELSE PyList(items)
      [] OTHER -> ValueError("Unknown value type")

pb2_value_to_python(value) ==
    CASE value.kind = "null_value" -> PyNone
      [] value.kind = "number_value" -> PyFloat(value.val)
      [] value.kind = "string_value" -> PyStr(value.val)
      [] value.kind = "bool_value" -> PyBool(value.val)
      [] value.kind = "struct_value" -> pb2_struct_to_python(value.val)
      [] value.kind = "list_value" ->
            LET items == [i \in 1..Len(value.val) |-> pb2_value_to_python(value.val[i])]
            IN IF \E i \in 1..Len(items) : IsRaise(items[i])
               THEN ValueError("Unknown value type")
               ELSE PyList(items)
      [] OTHER -> ValueError("Unknown value type")

\* Mutant: the fields that cannot be decoded are left out.
Pb2StructToPythonSkipUnknown(struct) ==
    LET fields == [k \in DOMAIN struct |-> pb2_value_to_python(struct[k])]
    IN PyDict(Restrict(fields, {k \in DOMAIN fields : ~IsRaise(fields[k])}))

\* {k: pb2_value_to_python(v) for k, v in struct.fields.items()}
pb2_struct_to_python(struct) ==
    LET fields == [k \in DOMAIN struct |-> pb2_value_to_python(struct[k])]
    IN IF \E k \in DOMAIN fields : IsRaise(fields[k])
       THEN ValueError("Unknown value type")
       ELSE PyDict(fields)

\* What a call of the encoder that raises has no result for.
WireRaises == [kind |-> "raise", val |-> 0]

\* pipeline_spec_builder.to_protobuf_value, the inverse of the decoder: every
\* number, int or float, becomes a number_value.
RECURSIVE to_protobuf_value(_)
to_protobuf_value(value) ==
    CASE value.t = "NoneType" -> NullValue
      [] value.t = "float" -> NumberValue(value.v)
      [] value.t = "int" -> NumberValue(2 * value.v)
      [] value.t = "str" -> StringValue(value.v)
      [] value.t = "bool" -> BoolValue(value.v)
      [] value.t = "dict" ->
            LET fields == [k \in DOMAIN value.v |-> to_protobuf_value(value.v[k])]
            IN IF \E k \in DOMAIN fields : fields[k] = WireRaises THEN WireRaises
               ELSE StructValue(fields)
      [] value.t = "list" ->
            LET values == [i \in 1..Len(value.v) |-> to_protobuf_value(value.v[i])]
            IN IF \E i \in 1..Len(values) : values[i] = WireRaises THEN WireRaises
               ELSE ListValue(values)
      [] OTHER -> WireRaises

Vals == {PyInt(n) : n \in 0..MaxVal}

\* status.Status
SUCCESS == "SUCCESS"
FAILURE == "FAILURE"
Status == {SUCCESS, FAILURE}

\* Python's None as a failing-task name, and the empty dict.
None == "None"
EmptyDict == <<>>

----------------------------------------------------------------------------
(* io.IOStore *)

IOStore == [parent_input_data |-> EmptyDict, task_output_data |-> EmptyDict]

put_parent_input(store, key, value) ==
    [store EXCEPT !.parent_input_data = (key :> value) @@ @]

put_task_output(store, task_name, key, value) ==
    [store EXCEPT !.task_output_data = (<<task_name, key>> :> value) @@ @]

has_parent_input(store, key) == key \in DOMAIN store.parent_input_data

has_task_output(store, task_name, key) ==
    <<task_name, key>> \in DOMAIN store.task_output_data

\* The error of a lookup of an entry the store does not have.
NotInStore == ValueError("not in the IOStore")

get_parent_input(store, key) ==
    IF has_parent_input(store, key) THEN store.parent_input_data[key] ELSE NotInStore

get_task_output(store, task_name, key) ==
    IF has_task_output(store, task_name, key)
    THEN store.task_output_data[<<task_name, key>>]
    ELSE NotInStore

----------------------------------------------------------------------------
(* The compiled graph: pipeline_spec_pb2 messages *)

\* Task names of the root graph and of a nested graph, in declaration order.
\* Nested levels reuse the names of the root level.
RootTasks == <<"a", "b", "c">>
NestedTasks == <<"a", "b">>

\* Component names of the graph levels 1, 2, ...
DagNames == <<"root", "comp-inner-2", "comp-inner-3", "comp-inner-4", "comp-inner-5">>

Range(seq) == {seq[i] : i \in 1..Len(seq)}

RootTasksSet == Range(RootTasks)

\* What one task is: a container step, an importer step, a nested graph, or a
\* container step under dsl.Condition or dsl.ParallelFor.
Roles == {"container", "importer", "dag", "condition", "iterator"}
PlainRoles == {"container"}

\* Where the task's input parameter p comes from: a constant of the graph, the
\* input p of the enclosing graph, or the output y of another task of the level.
Wirings(tasks) ==
    {w \in [Range(tasks) -> {"constant", "parent"} \cup Range(tasks)] :
        \A t \in Range(tasks) : w[t] # t}

ChainWiring(tasks) ==
    [t \in Range(tasks) |->
        LET i == CHOOSE j \in 1..Len(tasks) : tasks[j] = t
        IN IF i = 1 THEN "parent" ELSE tasks[i - 1]]

ReverseWiring(tasks) ==
    [t \in Range(tasks) |->
        LET i == CHOOSE j \in 1..Len(tasks) : tasks[j] = t
        IN IF i = Len(tasks) THEN "constant" ELSE tasks[i + 1]]

FlatWiring(tasks) == [t \in Range(tasks) |-> "parent"]

BaseWirings(tasks) == {ChainWiring(tasks), ReverseWiring(tasks), FlatWiring(tasks)}

RoleChoices(tasks, most) ==
    {r \in [Range(tasks) -> Roles] :
        Cardinality({t \in Range(tasks) : r[t] \notin PlainRoles}) <= most}

\* One graph level: the declared tasks, their roles and wiring, and the task
\* the output y of the graph is selected from.
\* `special` names one task whose inputs are bound in a way of their own, `outsel`
\* the kind of selector the graph's output has.
NoSpecial == [task |-> "", how |-> ""]

Shape(tasks, r, w, o) ==
    [tasks |-> tasks, roles |-> r, wiring |-> w, out |-> o,
     special |-> NoSpecial, outsel |-> "parameter"]

AllContainers(tasks) == [t \in Range(tasks) |-> "container"]

PlainShape(tasks) ==
    Shape(tasks, AllContainers(tasks), ChainWiring(tasks), tasks[Len(tasks)])

\* Container steps under every wiring, cyclic ones included.
WiringShapes(tasks) ==
    {Shape(tasks, AllContainers(tasks), w, tasks[Len(tasks)]) : w \in Wirings(tasks)}
    \cup {Shape(tasks, AllContainers(tasks), w, tasks[1]) : w \in BaseWirings(tasks)}

\* Up to `most` tasks that are not plain container steps, in a chain; one such
\* task under the other base wirings.
RoleShapes(tasks, most) ==
    {Shape(tasks, r, ChainWiring(tasks), tasks[Len(tasks)]) :
        r \in RoleChoices(tasks, most)}
    \cup {Shape(tasks, r, w, tasks[Len(tasks)]) :
            r \in RoleChoices(tasks, 1), w \in BaseWirings(tasks)}

HasDag(shape) == \E t \in Range(shape.tasks) : shape.roles[t] = "dag"

\* The root graph whose middle task is a nested graph, in a chain.
NestingRoots ==
    {s \in RoleShapes(RootTasks, 1) :
        s.roles[RootTasks[2]] = "dag" /\ s.wiring = ChainWiring(RootTasks)}

\* The arguments of the top-level call: p given, or left to its default.
RootArguments == {EmptyDict} \cup {[p |-> v] : v \in Vals}

\* ComponentInputsSpec.parameters of a graph: p, declared an integer, with the
\* default 0.0.
StandardInputs ==
    [p |-> [default_value |-> NumberValue(0), parameter_type |-> "NUMBER_INTEGER"]]

\* p with a default, p and q with defaults, p without a default, p with the
\* default 3.0, p with a default and q without one.
InputDefinitions ==
    {StandardInputs,
     [p |-> [default_value |-> NumberValue(0), parameter_type |-> "NUMBER_INTEGER"],
      q |-> [default_value |-> NumberValue(4), parameter_type |-> "NUMBER_DOUBLE"]],
     [p |-> [default_value |-> UnsetValue, parameter_type |-> "NUMBER_INTEGER"]],
     [p |-> [default_value |-> NumberValue(6), parameter_type |-> "NUMBER_INTEGER"]],
     [p |-> [default_value |-> NumberValue(0), parameter_type |-> "NUMBER_INTEGER"],
      q |-> [default_value |-> UnsetValue, parameter_type |-> "NUMBER_DOUBLE"]]}

\* The ways one task's inputs are bound that a plain wiring does not have: no
\* binding form, a final status, two forms at once, a runtime parameter where a
\* constant is expected, a constant with no value, an output key the producer
\* does not have, a parent input the graph does not have, the constant 3.0; an
\* artifact input with no binding form, from the first task of the graph, from
\* the parent.
ParameterHows ==
    {"none", "final_status", "several", "runtime_parameter", "unset_constant",
     "unknown_key", "unknown_parent", "constant_three"}
ArtifactHows == {"artifact_none", "artifact_from_task", "artifact_from_parent"}
ProducerHows == {"unknown_key", "artifact_from_task"}

Specials(tasks) ==
    {[task |-> t, how |-> h] : t \in Range(tasks), h \in ParameterHows \cup ArtifactHows}
    \ {[task |-> tasks[1], how |-> h] : h \in ProducerHows}

\* Components that run_dag has no branch for: one without an implementation,
\* one whose executor is neither an importer nor a container.
UnsupportedRoles == {"no_implementation", "resolver"}

\* The selector of the graph's output: of a parameter, a one-of, of no kind;
\* and an artifact output next to it with one selector, none, two.
OutputSelectors ==
    {"parameter", "oneof", "unknown", "artifact", "artifact_none", "artifact_two"}

\* A chain of container steps but for one task bound in a way of its own, or
\* one unsupported component, or the selector of the output.
SpecialShapes(tasks) ==
    {[PlainShape(tasks) EXCEPT !.special = sp] : sp \in Specials(tasks)}
    \cup {[PlainShape(tasks) EXCEPT !.roles[t] = r] :
             t \in Range(tasks), r \in UnsupportedRoles}
    \cup {[PlainShape(tasks) EXCEPT !.outsel = o] : o \in OutputSelectors}

\* The nesting root, also with an artifact handed to the nested graph.
ArtifactNestingRoots ==
    {[r EXCEPT !.special = sp] :
        r \in NestingRoots,
        sp \in {NoSpecial, [task |-> RootTasks[2], how |-> "artifact_from_task"]}}

\* The nesting root whose nested graph is given the constant 3.0 as its p.
ConstantNestingRoots ==
    {[r EXCEPT !.special = [task |-> RootTasks[2], how |-> "constant_three"]] :
        r \in NestingRoots}

Pipelines ==
    {[root |-> r, nested |-> PlainShape(NestedTasks), arguments |-> EmptyDict,
      inputs |-> StandardInputs] :
        r \in WiringShapes(RootTasks) \cup RoleShapes(RootTasks, 2)
              \cup SpecialShapes(RootTasks)}
    \cup
    {[root |-> r, nested |-> n, arguments |-> EmptyDict, inputs |-> StandardInputs] :
        r \in NestingRoots,
        n \in WiringShapes(NestedTasks) \cup RoleShapes(NestedTasks, 1)}
    \cup
    {[root |-> r, nested |-> n, arguments |-> EmptyDict, inputs |-> StandardInputs] :
        r \in ArtifactNestingRoots, n \in SpecialShapes(NestedTasks)}
    \cup
    {[root |-> r, nested |-> PlainShape(NestedTasks), arguments |-> a, inputs |-> i] :
        r \in {PlainShape(RootTasks)} \cup NestingRoots,
        a \in RootArguments, i \in InputDefinitions}
    \cup
    {[root |-> r, nested |-> PlainShape(NestedTasks), arguments |-> EmptyDict,
      inputs |-> i] :
        r \in ConstantNestingRoots, i \in InputDefinitions}
    \cup
    {[root |-> r, nested |-> PlainShape(NestedTasks), arguments |-> [q |-> PyFloat(2)],
      inputs |-> i] :
        r \in NestingRoots,
        i \in {d \in InputDefinitions :
                  "q" \in DOMAIN d /\ d["q"].default_value = UnsetValue}}

ShapeOf(level) == IF level = 1 THEN pipeline.root ELSE pipeline.nested

LevelOf(component_name) ==
    CHOOSE k \in 1..Len(DagNames) : DagNames[k] = component_name

\* TaskInputsSpec.InputParameterSpec of the input p of a task wired to w:
\* `fields` are the fields HasField finds set.
InputParameterSpec(w) ==
    [fields |-> CASE w = "constant" -> {"runtime_value"}
                  [] w = "parent" -> {"component_input_parameter"}
                  [] OTHER -> {"task_output_parameter"},
     task_output_parameter |-> [producer_task |-> w, output_parameter_key |-> "y"],
     runtime_value |-> [value |-> "constant", constant |-> NumberValue(0)],
     component_input_parameter |-> "p"]

\* The same of a task bound in a way of its own.
SpecialParameterSpec(how, w, first) ==
    CASE how = "none" -> [InputParameterSpec(w) EXCEPT !.fields = {}]
      [] how = "final_status" ->
            [InputParameterSpec(w) EXCEPT !.fields = {"task_final_status"}]
      [] how = "several" ->
            [InputParameterSpec(w) EXCEPT
                !.fields = {"runtime_value", "component_input_parameter"}]
      [] how = "runtime_parameter" ->
            [InputParameterSpec(w) EXCEPT
                !.fields = {"runtime_value"},
                !.runtime_value.value = "runtime_parameter"]
      [] how = "unset_constant" ->
            [InputParameterSpec(w) EXCEPT
                !.fields = {"runtime_value"},
                !.runtime_value.constant = UnsetValue]
      [] how = "constant_three" ->
            [InputParameterSpec(w) EXCEPT
                !.fields = {"runtime_value"},
                !.runtime_value.constant = NumberValue(6)]
      [] how = "unknown_key" ->
            [InputParameterSpec(w) EXCEPT
                !.fields = {"task_output_parameter"},
                !.task_output_parameter =
                    [producer_task |-> first, output_parameter_key |-> "z"]]
      [] how = "unknown_parent" ->
            [InputParameterSpec(w) EXCEPT
                !.fields = {"component_input_parameter"},
                !.component_input_parameter = "r"]
      [] OTHER -> InputParameterSpec(w)

\* TaskInputsSpec.artifacts of a task: the input art, when the task has one.
InputArtifactSpecs(how, first) ==
    IF how \notin ArtifactHows THEN EmptyDict
    ELSE [art |->
            [fields |-> CASE how = "artifact_from_task" -> {"task_output_artifact"}
                          [] how = "artifact_from_parent" -> {"component_input_artifact"}
                          [] OTHER -> {},
             task_output_artifact |->
                 [producer_task |-> first, output_artifact_key |-> "y"],
             component_input_artifact |-> "art"]]

HasField(message, field) == field \in message.fields

\* PipelineTaskSpec of task t of the graph at a level. A nested graph at the
\* deepest level has container steps where it would nest further.
TaskSpec(level, t) ==
    LET shape == ShapeOf(level)
        role == shape.roles[t]
        how == IF shape.special.task = t THEN shape.special.how ELSE ""
    IN [component_ref |->
            [name |-> CASE role = "dag" /\ level < MaxDepth -> DagNames[level + 1]
                        [] role = "importer" -> "comp-importer"
                        [] role = "no_implementation" -> "comp-none"
                        [] role = "resolver" -> "comp-resolver"
                        [] OTHER -> "comp-container"],
        inputs |-> [parameters |->
                        [p |-> SpecialParameterSpec(how, shape.wiring[t], shape.tasks[1])],
                    artifacts |-> InputArtifactSpecs(how, shape.tasks[1])],
        trigger_policy |-> [condition |-> IF role = "condition" THEN "p == 0" ELSE ""],
        iterator |-> IF role = "iterator" THEN "parameter_iterator" ELSE None]

ComponentNames ==
    {DagNames[k] : k \in 1..MaxDepth}
    \cup {"comp-container", "comp-importer", "comp-none", "comp-resolver"}

\* DagOutputsSpec of a graph: the output y, and the artifact output art when
\* the graph has one.
DagOutputsSpec(shape) ==
    [parameters |->
        [y |-> [kind |-> CASE shape.outsel = "oneof" -> "value_from_oneof"
                           [] shape.outsel = "unknown" -> None
                           [] OTHER -> "value_from_parameter",
                value_from_parameter |->
                    [producer_subtask |-> shape.out, output_parameter_key |-> "y"]]],
     artifacts |->
        LET selector == [producer_subtask |-> shape.out, output_artifact_key |-> "y"]
        IN CASE shape.outsel = "artifact" ->
                    [art |-> [artifact_selectors |-> <<selector>>]]
             [] shape.outsel = "artifact_none" ->
                    [art |-> [artifact_selectors |-> <<>>]]
             [] shape.outsel = "artifact_two" ->
                    [art |-> [artifact_selectors |-> <<selector, selector>>]]
             [] OTHER -> EmptyDict]

\* ComponentSpec by name: the components map of run_dag
components ==
    [name \in ComponentNames |->
        IF name \in Range(DagNames)
        THEN LET level == LevelOf(name)
                 shape == ShapeOf(level)
             IN [implementation |-> "dag",
                 executor_label |-> "",
                 input_definitions |-> [parameters |-> pipeline.inputs],
                 dag |-> [task_names |-> shape.tasks,
                          tasks |-> [t \in Range(shape.tasks) |-> TaskSpec(level, t)],
                          outputs |-> DagOutputsSpec(shape)]]
        ELSE [implementation |-> IF name = "comp-none" THEN None ELSE "executor_label",
              executor_label |-> CASE name = "comp-importer" -> "exec-importer"
                                   [] name = "comp-resolver" -> "exec-resolver"
                                   [] OTHER -> "exec-container",
              input_definitions |-> [parameters |-> EmptyDict],
              dag |-> [task_names |-> <<>>, tasks |-> EmptyDict,
                       outputs |-> [parameters |-> EmptyDict, artifacts |-> EmptyDict]]]]

\* PipelineDeploymentConfig.ExecutorSpec by label: the executors map of run_dag
executors ==
    [label \in {"exec-container", "exec-importer", "exec-resolver"} |->
        [spec |-> CASE label = "exec-importer" -> "importer"
                    [] label = "exec-resolver" -> "resolver"
                    [] OTHER -> "container"]]

----------------------------------------------------------------------------
(* graph_utils.topological_sort_tasks *)

\* The tasks whose outputs the task consumes as arguments.
Producers(task_spec) ==
    {task_spec.inputs.parameters[n].task_output_parameter.producer_task :
        n \in {m \in DOMAIN task_spec.inputs.parameters :
                  HasField(task_spec.inputs.parameters[m], "task_output_parameter")}}
    \cup
    {task_spec.inputs.artifacts[n].task_output_artifact.producer_task :
        n \in {m \in DOMAIN task_spec.inputs.artifacts :
                  HasField(task_spec.inputs.artifacts[m], "task_output_artifact")}}

\* Execution order: again and again the first declared task all of whose
\* producers are placed; a cycle when tasks remain and none of them is ready.
RECURSIVE ExecutionOrder(_, _, _)
ExecutionOrder(dag_spec, placed, acc) ==
    LET pending == {i \in 1..Len(dag_spec.task_names) :
                       dag_spec.task_names[i] \notin placed}
        ready == {i \in pending :
                     Producers(dag_spec.tasks[dag_spec.task_names[i]]) \subseteq placed}
    IN IF pending = {} THEN [cycle |-> FALSE, order |-> acc]
       ELSE IF ready = {} THEN [cycle |-> TRUE, order |-> acc]
       ELSE LET i == CHOOSE j \in ready : \A k \in ready : j <= k
                t == dag_spec.task_names[i]
            IN CHOOSE r \in {ExecutionOrder(dag_spec, p, a) :
                                p \in {placed \cup {t}}, a \in {Append(acc, t)}} : TRUE

Reverse(seq) == [i \in 1..Len(seq) |-> seq[Len(seq) + 1 - i]]

\* The stack to pop from: the first task to run is the last element.
topological_sort_tasks(dag_spec) ==
    LET r == CHOOSE x \in {ExecutionOrder(d, {}, <<>>) : d \in {dag_spec}} : TRUE
    IN [cycle |-> r.cycle, tasks |-> Reverse(r.order)]

----------------------------------------------------------------------------
(* dag_orchestrator *)

\* Mutant: the default of an input declared an integer is cast to an int.
BindDefaultsCastingIntegers(dag_arguments, dag_inputs_spec) ==
    [input_name \in DOMAIN dag_inputs_spec.parameters |->
        IF input_name \in DOMAIN dag_arguments
        THEN dag_arguments[input_name]
        ELSE LET decoded ==
                     pb2_value_to_python(dag_inputs_spec.parameters[input_name].default_value)
             IN IF /\ dag_inputs_spec.parameters[input_name].parameter_type = "NUMBER_INTEGER"
                   /\ decoded.t = "float"
                THEN PyInt(decoded.v \div 2)
                ELSE decoded]

\* Mutant: an input without a default is left out of the arguments.
BindDefaultsSkippingUnset(dag_arguments, dag_inputs_spec) ==
    [input_name \in {n \in DOMAIN dag_inputs_spec.parameters :
                        \/ n \in DOMAIN dag_arguments
                        \/ dag_inputs_spec.parameters[n].default_value # UnsetValue} |->
        IF input_name \notin DOMAIN dag_arguments
        THEN pb2_value_to_python(dag_inputs_spec.parameters[input_name].default_value)
        ELSE dag_arguments[input_name]]

bind_defaults_to_dag_arguments(dag_arguments, dag_inputs_spec) ==
    [input_name \in DOMAIN dag_inputs_spec.parameters |->
        IF input_name \notin DOMAIN dag_arguments
        THEN pb2_value_to_python(dag_inputs_spec.parameters[input_name].default_value)
        ELSE dag_arguments[input_name]]

\* for k, v in dag_arguments_with_defaults.items(): io_store.put_parent_input(k, v)
RECURSIVE put_parent_inputs(_, _)
put_parent_inputs(store, arguments) ==
    IF DOMAIN arguments = {} THEN store
    ELSE LET k == CHOOSE x \in DOMAIN arguments : TRUE
         IN put_parent_inputs(put_parent_input(store, k, arguments[k]),
                              Restrict(arguments, DOMAIN arguments \ {k}))

\* for key, output in outputs.items(): io_store.put_task_output(task_name, key, output)
RECURSIVE put_task_outputs(_, _, _)
put_task_outputs(store, task_name, outputs) ==
    IF DOMAIN outputs = {} THEN store
    ELSE LET k == CHOOSE x \in DOMAIN outputs : TRUE
         IN put_task_outputs(put_task_output(store, task_name, k, outputs[k]),
                             task_name, Restrict(outputs, DOMAIN outputs \ {k}))

\* Mutant: an input with no binding form is given None.
ParameterArgumentLenient(input_spec, io_store) ==
    IF HasField(input_spec, "task_output_parameter")
    THEN get_task_output(io_store, input_spec.task_output_parameter.producer_task,
                         input_spec.task_output_parameter.output_parameter_key)
    ELSE IF HasField(input_spec, "runtime_value")
    THEN IF input_spec.runtime_value.value # "constant"
         THEN ValueError("Expected constant.")
         ELSE pb2_value_to_python(input_spec.runtime_value.constant)
    ELSE IF HasField(input_spec, "component_input_parameter")
    THEN get_parent_input(io_store, input_spec.component_input_parameter)
    ELSE PyNone

\* The argument of one input parameter, or the error it raises.
ParameterArgument(input_spec, io_store) ==
    IF HasField(input_spec, "task_output_parameter")
    THEN get_task_output(io_store, input_spec.task_output_parameter.producer_task,
                         input_spec.task_output_parameter.output_parameter_key)
    ELSE IF HasField(input_spec, "runtime_value")
    THEN IF input_spec.runtime_value.value # "constant"
         THEN ValueError("Expected constant.")
         ELSE pb2_value_to_python(input_spec.runtime_value.constant)
    ELSE IF HasField(input_spec, "component_input_parameter")
    THEN get_parent_input(io_store, input_spec.component_input_parameter)
    ELSE IF HasField(input_spec, "task_final_status")
    THEN ValueError("'dsl.ExitHandler' is not yet support for local execution.")
    ELSE ValueError("Invalid or missing input")

\* The argument of one input artifact, or the error it raises.
ArtifactArgument(input_spec, io_store) ==
    IF HasField(input_spec, "task_output_artifact")
    THEN get_task_output(io_store, input_spec.task_output_artifact.producer_task,
                         input_spec.task_output_artifact.output_artifact_key)
    ELSE IF HasField(input_spec, "component_input_artifact")
    THEN get_parent_input(io_store, input_spec.component_input_artifact)
    ELSE ValueError("Invalid or missing input")

\* The arguments of a task: an artifact wins over a parameter of its name.
TaskArguments(task_inputs_spec, io_store) ==
    [input_name \in DOMAIN task_inputs_spec.parameters
                    \cup DOMAIN task_inputs_spec.artifacts |->
        IF input_name \in DOMAIN task_inputs_spec.artifacts
        THEN ArtifactArgument(task_inputs_spec.artifacts[input_name], io_store)
        ELSE ParameterArgument(task_inputs_spec.parameters[input_name], io_store)]

\* Mutant: a lookup that finds nothing is not an error, the argument is what
\* the lookup gave.
MakeTaskArgumentsRaisesUnlessLookup(task_inputs_spec, io_store) ==
    \/ \E n \in DOMAIN task_inputs_spec.parameters :
          /\ IsRaise(ParameterArgument(task_inputs_spec.parameters[n], io_store))
          /\ ParameterArgument(task_inputs_spec.parameters[n], io_store) # NotInStore
    \/ \E n \in DOMAIN task_inputs_spec.artifacts :
          /\ IsRaise(ArtifactArgument(task_inputs_spec.artifacts[n], io_store))
          /\ ArtifactArgument(task_inputs_spec.artifacts[n], io_store) # NotInStore

\* TRUE when resolving some input raises
make_task_arguments_raises(task_inputs_spec, io_store) ==
    \/ \E n \in DOMAIN task_inputs_spec.parameters :
          IsRaise(ParameterArgument(task_inputs_spec.parameters[n], io_store))
    \/ \E n \in DOMAIN task_inputs_spec.artifacts :
          IsRaise(ArtifactArgument(task_inputs_spec.artifacts[n], io_store))

\* The message of the error make_task_arguments raises: of a parameter before
\* an artifact.
make_task_arguments_error(task_inputs_spec, io_store) ==
    LET bad_parameters ==
            {n \in DOMAIN task_inputs_spec.parameters :
                IsRaise(ParameterArgument(task_inputs_spec.parameters[n], io_store))}
        bad_artifacts ==
            {n \in DOMAIN task_inputs_spec.artifacts :
                IsRaise(ArtifactArgument(task_inputs_spec.artifacts[n], io_store))}
    IN IF bad_parameters # {}
       THEN ParameterArgument(
                task_inputs_spec.parameters[CHOOSE n \in bad_parameters : TRUE],
                io_store).v
       ELSE ArtifactArgument(
                task_inputs_spec.artifacts[CHOOSE n \in bad_artifacts : TRUE],
                io_store).v

make_task_arguments(task_inputs_spec, io_store) ==
    TaskArguments(task_inputs_spec, io_store)

\* Mutant: a one-of selector is read as the selector of a parameter.
GetDagOutputParametersRaisesNever(dag_outputs_spec, io_store) ==
    \E k \in DOMAIN dag_outputs_spec.parameters :
        LET sel == dag_outputs_spec.parameters[k]
        IN IsRaise(get_task_output(io_store, sel.value_from_parameter.producer_subtask,
                                   sel.value_from_parameter.output_parameter_key))

\* TRUE when get_dag_output_parameters raises
get_dag_output_parameters_raises(dag_outputs_spec, io_store) ==
    \E k \in DOMAIN dag_outputs_spec.parameters :
        LET sel == dag_outputs_spec.parameters[k]
        IN \/ sel.kind # "value_from_parameter"
           \/ IsRaise(get_task_output(io_store,
                                      sel.value_from_parameter.producer_subtask,
                                      sel.value_from_parameter.output_parameter_key))

\* TRUE when get_dag_output_artifacts raises
get_dag_output_artifacts_raises(dag_outputs_spec, io_store) ==
    \E k \in DOMAIN dag_outputs_spec.artifacts :
        LET sels == dag_outputs_spec.artifacts[k].artifact_selectors
        IN \/ Len(sels) # 1
           \/ IsRaise(get_task_output(io_store, sels[1].producer_subtask,
                                      sels[1].output_artifact_key))

\* TRUE when projecting some declared output raises
get_dag_outputs_raises(dag_outputs_spec, io_store) ==
    \/ get_dag_output_parameters_raises(dag_outputs_spec, io_store)
    \/ get_dag_output_artifacts_raises(dag_outputs_spec, io_store)

\* Mutant: producer task and output key handed over in the wrong order.
GetDagOutputParametersSwapped(dag_outputs_spec, io_store) ==
    [root_output_key \in DOMAIN dag_outputs_spec.parameters |->
        get_task_output(io_store,
            dag_outputs_spec.parameters[root_output_key]
                .value_from_parameter.output_parameter_key,
            dag_outputs_spec.parameters[root_output_key]
                .value_from_parameter.producer_subtask)]

get_dag_output_parameters(dag_outputs_spec, io_store) ==
    [root_output_key \in DOMAIN dag_outputs_spec.parameters |->
        get_task_output(io_store,
            dag_outputs_spec.parameters[root_output_key]
                .value_from_parameter.producer_subtask,
            dag_outputs_spec.parameters[root_output_key]
                .value_from_parameter.output_parameter_key)]

get_dag_output_artifacts(dag_outputs_spec, io_store) ==
    [root_output_key \in DOMAIN dag_outputs_spec.artifacts |->
        get_task_output(io_store,
            dag_outputs_spec.artifacts[root_output_key].artifact_selectors[1].producer_subtask,
            dag_outputs_spec.artifacts[root_output_key].artifact_selectors[1].output_artifact_key)]

\* The message of the error get_dag_outputs raises: of the parameters before the
\* artifacts.
get_dag_outputs_error(dag_outputs_spec, io_store) ==
    IF get_dag_output_parameters_raises(dag_outputs_spec, io_store)
    THEN LET k == CHOOSE n \in DOMAIN dag_outputs_spec.parameters :
                     \/ dag_outputs_spec.parameters[n].kind # "value_from_parameter"
                     \/ get_dag_output_parameters_raises(
                            [dag_outputs_spec EXCEPT !.parameters =
                                Restrict(dag_outputs_spec.parameters, {n})], io_store)
         IN CASE dag_outputs_spec.parameters[k].kind = "value_from_parameter" ->
                     NotInStore.v
              [] dag_outputs_spec.parameters[k].kind = "value_from_oneof" ->
                     "'dsl.OneOf' is not yet supported in local execution."
              [] OTHER -> "Got unknown 'parameter_selector_spec' kind"
    ELSE IF \E k \in DOMAIN dag_outputs_spec.artifacts :
               Len(dag_outputs_spec.artifacts[k].artifact_selectors) # 1
    THEN "Expected 1 artifact in ArtifactSelectorSpec."
    ELSE NotInStore.v

\* {**output_params, **output_artifacts}
get_dag_outputs(dag_outputs_spec, io_store) ==
    get_dag_output_artifacts(dag_outputs_spec, io_store)
        @@ get_dag_output_parameters(dag_outputs_spec, io_store)

\* Mutant: only dsl.Condition is looked for.
ValidateConditionOnly(task_spec) ==
    IF task_spec.trigger_policy.condition # ""
    THEN "dsl.Condition is not supported by local pipeline execution."
    ELSE ""

\* The error the task spec is rejected with, "" when it is accepted.
validate_task_spec_not_loop_or_condition(task_spec) ==
    IF task_spec.trigger_policy.condition # ""
    THEN "dsl.Condition is not supported by local pipeline execution."
    ELSE IF task_spec.iterator # None
    THEN "dsl.ParallelFor is not supported by local pipeline execution."
    ELSE ""

\* Mutant: sorted_tasks.pop(0), the task at the wrong end of the list.
PopTaskFirst(sorted_tasks) == sorted_tasks[1]

\* Mutant: the task is read and left in the list.
PopRestPeek(sorted_tasks) == sorted_tasks

\* Mutant: the loop is left after its first pass.
PopRestDropsAll(sorted_tasks) == <<>>

\* task_name = sorted_tasks.pop(): the task taken, and the tasks left
PopTask(sorted_tasks) == sorted_tasks[Len(sorted_tasks)]

\* Mutant: the task taken is put back at the other end of the list.
PopRestRequeue(sorted_tasks) ==
    <<sorted_tasks[Len(sorted_tasks)]>> \o SubSeq(sorted_tasks, 1, Len(sorted_tasks) - 1)

PopRest(sorted_tasks) == SubSeq(sorted_tasks, 1, Len(sorted_tasks) - 1)

\* Mutant: a cycle is no error, the tasks run in the reverse of their declaration.
SequenceTasksAnyway(dag_spec) ==
    IF topological_sort_tasks(dag_spec).cycle
    THEN [cycle |-> FALSE, tasks |-> dag_spec.task_names]
    ELSE topological_sort_tasks(dag_spec)

\* sorted_tasks = graph_utils.topological_sort_tasks(dag_spec.tasks): its error
\* is not caught
SequenceTasks(dag_spec) == topological_sort_tasks(dag_spec)

\* Mutant: else instead of elif, whatever is not an importer runs as a container.
ExecutorBranchElse(executor_spec) ==
    IF executor_spec.spec = "importer" THEN "importer" ELSE "container"

\* if executor_spec.WhichOneof('spec') == 'importer': ... elif ... == 'container':
\* ... else: raise
ExecutorBranch(executor_spec) ==
    CASE executor_spec.spec = "importer" -> "importer"
      [] executor_spec.spec = "container" -> "container"
      [] OTHER -> "raise"

\* Mutant: every nested call runs against the store of the top-level graph.
SubDagIoStoreOfRoot(io_store, sub_dag_io_store) == 1

\* Mutant: the nested call runs against the store of the calling level.
SubDagIoStoreShared(io_store, sub_dag_io_store) == io_store

\* The store a nested run_dag call gets: sub_dag_io_store, the new IOStore(),
\* not io_store, the store of the calling level.
SubDagIoStore(io_store, sub_dag_io_store) == sub_dag_io_store

\* Mutant: the step is started and the loop goes on without waiting for it.
AfterDispatchNoWait == "loop"

\* Where the runner stands after handing a step to a collaborator: the call is
\* synchronous, it waits for the (outputs, status) pair.
AfterDispatchPc == "await"

\* Mutant: the condition the wrong way round.
LeafFailTaskNameInverted(task_name, task_status) ==
    IF task_status = FAILURE THEN None ELSE task_name

\* fail_task_name = task_name if task_status == status.Status.FAILURE else None
LeafFailTaskName(task_name, task_status) ==
    IF task_status = FAILURE THEN task_name ELSE None

\* Mutant: the calling level puts the name of the nested-graph task in front.
NestedFailTaskNameQualified(task_name, ret) ==
    IF ret.status = FAILURE THEN task_name \o "." \o ret.fail_task_name ELSE None

\* Mutant: the calling level reports the task that is the nested graph.
NestedFailTaskNameOfCaller(task_name, ret) ==
    IF ret.status = FAILURE THEN task_name ELSE None

\* outputs, task_status, fail_task_name = run_dag(...): the name the nested call
\* returned, not the name of the task that is the nested graph
NestedFailTaskName(task_name, ret) == ret.fail_task_name

\* Mutant: the outputs of the nested call are not kept.
NestedOutputsDropped(ret) == EmptyDict

\* outputs, task_status, fail_task_name = run_dag(...): the map the nested call
\* returned is the outputs of the task
NestedOutputs(ret) == ret.outputs

\* Mutant: a failed task does not end the loop, its pass goes on as after success.
TaskStatusBranchNoExit(task_status) ==
    CASE task_status \in {FAILURE, SUCCESS} -> "record"
      [] OTHER -> "raise"

\* Mutant: the outputs are recorded whatever the status.
TaskStatusBranchRecordsAll(task_status) == "record"

\* Mutant: whatever is not a failure is taken for a success.
TaskStatusBranchElseRecords(task_status) ==
    CASE task_status = FAILURE -> "exit"
      [] OTHER -> "record"

\* raise ValueError(f'Got unknown task status: {task_status.name}'): None has
\* no attribute name, and the f-string raises AttributeError instead.
UnknownStatusError(task_status) ==
    IF task_status = None
    THEN "'NoneType' object has no attribute 'name'"
    ELSE "Got unknown task status"

\* if task_status == FAILURE: return ... elif task_status == SUCCESS: ... else: raise
TaskStatusBranch(task_status) ==
    CASE task_status = FAILURE -> "exit"
      [] task_status = SUCCESS -> "record"
      [] OTHER -> "raise"

\* Mutant: what the failed task handed back is returned with the failure.
FailureReturnWithOutputs(outputs, fail_task_name) ==
    [outputs |-> outputs, status |-> FAILURE, fail_task_name |-> fail_task_name]

\* return {}, status.Status.FAILURE, fail_task_name
FailureReturn(outputs, fail_task_name) ==
    [outputs |-> EmptyDict, status |-> FAILURE, fail_task_name |-> fail_task_name]

\* return dag_outputs, status.Status.SUCCESS, None
SuccessReturn(dag_outputs) ==
    [outputs |-> dag_outputs, status |-> SUCCESS, fail_task_name |-> None]

NoReturn == [outputs |-> EmptyDict, status |-> None, fail_task_name |-> None]

----------------------------------------------------------------------------
(* History *)

NoEvent ==
    [ev |-> "", path |-> <<>>, task |-> "", kind |-> "", store |-> 0, key |-> "",
     value |-> PyNone, status |-> None, fail |-> None, outputs |-> EmptyDict]

PopEvent(path, store, task) ==
    [NoEvent EXCEPT !.ev = "pop", !.path = path, !.store = store, !.task = task]

DispatchEvent(path, task, kind) ==
    [NoEvent EXCEPT !.ev = "dispatch", !.path = path, !.task = task, !.kind = kind]

StatusEvent(path, task, task_status) ==
    [NoEvent EXCEPT !.ev = "status", !.path = path, !.task = task,
                    !.status = task_status]

WriteEvent(path, store, task, key, value) ==
    [NoEvent EXCEPT !.ev = "write", !.path = path, !.store = store, !.task = task,
                    !.key = key, !.value = value]

ReturnEvent(path, ret) ==
    [NoEvent EXCEPT !.ev = "return", !.path = path, !.outputs = ret.outputs,
                    !.status = ret.status, !.fail = ret.fail_task_name]

RECURSIVE WriteEvents(_, _, _, _)
WriteEvents(path, store, task, outputs) ==
    IF DOMAIN outputs = {} THEN <<>>
    ELSE LET k == CHOOSE x \in DOMAIN outputs : TRUE
         IN <<WriteEvent(path, store, task, k, outputs[k])>>
            \o WriteEvents(path, store, task, Restrict(outputs, DOMAIN outputs \ {k}))

----------------------------------------------------------------------------
(* The collaborators that run one step *)

\* What importer_handler.run_importer and
\* task_dispatcher.run_single_task_implementation return: (outputs, status).
\* A status that is neither member of the enumeration comes back as None, or
\* as an object of another kind that has a name.
UnknownStatuses == {None, "CANCELLED"}

CollaboratorResults ==
    {[outputs |-> [y |-> v], status |-> SUCCESS] : v \in Vals}
    \cup {[outputs |-> EmptyDict, status |-> FAILURE],
          [outputs |-> [y |-> PyInt(0)], status |-> FAILURE]}
    \cup {[outputs |-> [y |-> PyInt(0)], status |-> u] : u \in UnknownStatuses}

----------------------------------------------------------------------------
(* executor_output_utils: the outputs of a container step *)

\* What a function returning a dict returns, or that it raised.
Returned(dict) == [raised |-> FALSE, outputs |-> dict]
Raised == [raised |-> TRUE, outputs |-> EmptyDict]

\* int() of a float, held in halves: towards zero.
Truncate(h) == IF h >= 0 THEN h \div 2 ELSE 0 - ((0 - h) \div 2)

\* Python's int(): of a number, of a bool, of the text of an integer.
int(value) ==
    CASE value.t = "float" -> PyInt(Truncate(value.v))
      [] value.t = "int" -> value
      [] value.t = "bool" -> PyInt(IF value.v THEN 1 ELSE 0)
      [] value.t = "str" -> IF value.v = "3" THEN PyInt(3) ELSE Raises
      [] OTHER -> Raises

\* Mutant: the values are handed back as they came.
CastFloatsAsIntsToFloatsNoCast(outputs_dict, outputs_typed_int) ==
    Returned(outputs_dict)

\* Mutant: an output that is missing or None is left as it is.
CastFloatsSkippingMissing(outputs_dict, outputs_typed_int) ==
    LET castable == {k \in outputs_typed_int :
                        k \in DOMAIN outputs_dict /\ outputs_dict[k] # PyNone}
    IN IF \E k \in castable : IsRaise(int(outputs_dict[k]))
       THEN Raised
       ELSE Returned([k \in DOMAIN outputs_dict |->
                         IF k \in castable THEN int(outputs_dict[k])
                         ELSE outputs_dict[k]])

\* for float_output_key in outputs_typed_int:
\*     outputs_dict[float_output_key] = int(outputs_dict[float_output_key])
cast_floats_as_ints_to_floats(outputs_dict, outputs_typed_int) ==
    IF \E k \in outputs_typed_int :
          k \notin DOMAIN outputs_dict \/ IsRaise(int(outputs_dict[k]))
    THEN Raised
    ELSE Returned([k \in DOMAIN outputs_dict |->
                      IF k \in outputs_typed_int THEN int(outputs_dict[k])
                      ELSE outputs_dict[k]])

\* json.loads of the text of an output file
json_loads(text) ==
    CASE text = "1" -> PyInt(1)
      [] text = "1.5" -> PyFloat(3)
      [] text = "null" -> PyNone
      [] OTHER -> Raises

\* Mutant: the text of every file is decoded as JSON.
SpecialDslOutputpathReadJson(text, is_string) == json_loads(text)

\* return parameter_value if is_string else json.loads(parameter_value)
special_dsl_outputpath_read(text, is_string) ==
    IF is_string THEN PyStr(text) ELSE json_loads(text)

\* The parameters of the step whose output file exists.
WrittenFiles(executor_input, files) ==
    {k \in DOMAIN executor_input.outputs.parameters :
        executor_input.outputs.parameters[k].output_file \in DOMAIN files}

\* What is read from the output file of a parameter.
FileValue(parameter_key, executor_input, component_spec, files) ==
    special_dsl_outputpath_read(
        files[executor_input.outputs.parameters[parameter_key].output_file],
        component_spec.output_definitions.parameters[parameter_key].parameter_type
            = "STRING")

\* The parameter_values of the message after the merge, or that it raised.
merge_dsl_output_file_parameters_to_executor_output(executor_input, executor_output, component_spec, files) ==
    LET written == WrittenFiles(executor_input, files)
    IN IF \E k \in written :
             \/ IsRaise(FileValue(k, executor_input, component_spec, files))
             \/ to_protobuf_value(FileValue(k, executor_input, component_spec, files))
                   = WireRaises
       THEN Raised
       ELSE Returned([k \in DOMAIN executor_output.parameter_values \cup written |->
                IF k \in written
                THEN to_protobuf_value(FileValue(k, executor_input, component_spec,
                                                 files))
                ELSE executor_output.parameter_values[k]])

\* Mutant: the type is copied only to the artifacts that came without one.
AddTypeToExecutorOutputIfMissing(executor_input, executor_output) ==
    Returned([key \in DOMAIN executor_output.artifacts |->
        [i \in 1..Len(executor_output.artifacts[key]) |->
            IF executor_output.artifacts[key][i].type # ""
            THEN executor_output.artifacts[key][i]
            ELSE [executor_output.artifacts[key][i] EXCEPT
                    !.type = executor_input.outputs.artifacts[key].artifacts[1].type]]])

\* The artifacts of the message, each with the type of the declared output.
add_type_to_executor_output(executor_input, executor_output) ==
    IF \E key \in DOMAIN executor_output.artifacts :
          /\ executor_output.artifacts[key] # <<>>
          /\ \/ key \notin DOMAIN executor_input.outputs.artifacts
             \/ executor_input.outputs.artifacts[key].artifacts = <<>>
    THEN Raised
    ELSE Returned([key \in DOMAIN executor_output.artifacts |->
            [i \in 1..Len(executor_output.artifacts[key]) |->
                [executor_output.artifacts[key][i] EXCEPT
                    !.type = executor_input.outputs.artifacts[key].artifacts[1].type]]])

\* executor.create_artifact_instance(json_format.MessageToDict(runtime_artifact))
runtime_artifact_to_dsl_artifact(runtime_artifact) ==
    [t |-> "Artifact", v |-> runtime_artifact]

artifact_list_to_dsl_artifact(artifact_list, is_artifact_list) ==
    LET dsl_artifacts == [i \in 1..Len(artifact_list) |->
                             runtime_artifact_to_dsl_artifact(artifact_list[i])]
    IN IF is_artifact_list THEN PyList(dsl_artifacts)
       ELSE IF dsl_artifacts = <<>> THEN Raises
       ELSE dsl_artifacts[1]

\* outputs_dict = {**output_parameters, **output_artifacts}: the decoded outputs
\* before the integers are restored, or that a step up to there raised.
OutputsDict(executor_output, executor_input, component_spec, files) ==
    LET typed == add_type_to_executor_output(executor_input, executor_output)
        merged == merge_dsl_output_file_parameters_to_executor_output(
                      executor_input, executor_output, component_spec, files)
        output_parameters ==
            [param_name \in DOMAIN merged.outputs |->
                pb2_value_to_python(merged.outputs[param_name])]
        output_artifact_definitions == component_spec.output_definitions.artifacts
        output_artifacts ==
            [artifact_name \in DOMAIN typed.outputs |->
                artifact_list_to_dsl_artifact(
                    typed.outputs[artifact_name],
                    IF artifact_name \in DOMAIN output_artifact_definitions
                    THEN output_artifact_definitions[artifact_name].is_artifact_list
                    ELSE FALSE)]
    IN IF \/ typed.raised
          \/ merged.raised
          \/ \E k \in DOMAIN output_parameters : IsRaise(output_parameters[k])
          \/ \E k \in DOMAIN output_artifacts : IsRaise(output_artifacts[k])
       THEN Raised
       ELSE Returned(output_artifacts @@ output_parameters)

get_outputs_from_executor_output(executor_output, executor_input, component_spec, files) ==
    LET outputs_dict == OutputsDict(executor_output, executor_input, component_spec, files)
        outputs_typed_int ==
            {output_param_name \in DOMAIN component_spec.output_definitions.parameters :
                component_spec.output_definitions.parameters[output_param_name]
                    .parameter_type = "NUMBER_INTEGER"}
    IN IF outputs_dict.raised
       THEN Raised
       ELSE cast_floats_as_ints_to_floats(outputs_dict.outputs, outputs_typed_int)

----------------------------------------------------------------------------
(* Calls of the codec *)

\* No call of the codec under way.
CodecIdle == [pc |-> "idle", x |-> PyNone, y |-> PyNone, z |-> PyNone, w |-> PyNone]

\* Doubles, in halves, and the strings, keys and integers of the values.
Halves == (0 - (2 * MaxVal + 4))..(2 * MaxVal + 4)
Strs == {"a", "3"}
Keys == {"k"}

NativeScalars ==
    {PyNone} \cup {PyFloat(h) : h \in Halves} \cup {PyInt(n) : n \in (0 - MaxVal)..MaxVal}
    \cup {PyStr(s) : s \in Strs} \cup {PyBool(b) : b \in BOOLEAN}

\* Native values nested up to a depth: scalars, lists of at most one value of
\* the depth below, dicts of at most one key.
RECURSIVE NativeValues(_)
NativeValues(depth) ==
    IF depth = 0 THEN NativeScalars
    ELSE LET below == NativeValues(depth - 1)
         IN NativeScalars
            \cup {PyList(<<>>), PyDict(EmptyDict)}
            \cup {PyList(<<e>>) : e \in below}
            \cup {PyDict([k \in Keys |-> e]) : e \in below}

\* Lists of two scalars of any two types.
NativePairs == {PyList(<<e1, e2>>) : e1 \in NativeScalars, e2 \in NativeScalars}

WireScalars ==
    {NullValue} \cup {NumberValue(h) : h \in Halves}
    \cup {StringValue(s) : s \in Strs} \cup {BoolValue(b) : b \in BOOLEAN}

\* Wire values nested up to a depth; `leaves` are the values without nesting.
RECURSIVE WireValuesOver(_, _)
WireValuesOver(leaves, depth) ==
    IF depth = 0 THEN leaves
    ELSE LET below == WireValuesOver(leaves, depth - 1)
         IN leaves
            \cup {ListValue(<<>>), StructValue(EmptyDict)}
            \cup {ListValue(<<e>>) : e \in below}
            \cup {StructValue([k \in Keys |-> e]) : e \in below}

\* The wire values every part of which carries a tag.
WireValues == WireValuesOver(WireScalars, MaxNest)

WirePairs == {ListValue(<<e1, e2>>) : e1 \in WireScalars, e2 \in WireScalars}

\* Wire values some part of which may carry no tag.
WireInputs == WireValuesOver(WireScalars \cup {UnsetValue}, MaxNest) \cup WirePairs

NativeInputs == NativeValues(MaxNest) \cup NativePairs

\* ParameterType.ParameterTypeEnum of a declared output parameter
ParameterTypes == {"NUMBER_INTEGER", "NUMBER_DOUBLE", "STRING"}

\* The texts a step leaves in an output file.
FileTexts == {"1", "1.5", "null", "a"}

OutputFile(parameter_key) == IF parameter_key = "y" THEN "/out/y" ELSE "/out/n"

\* What a step returns inline for a parameter.
OutputValues == WireScalars \cup {UnsetValue, ListValue(<<NumberValue(2)>>)}

\* RuntimeArtifact messages of a step's raw message
RuntimeArtifacts ==
    {[uri |-> "/out/art", type |-> ty, metadata |-> md] :
        ty \in {"", "system.Model"}, md \in {EmptyDict, [rows |-> PyInt(1)]}}

ArtifactLists ==
    {<<>>} \cup {<<a>> : a \in RuntimeArtifacts}
    \cup {<<a, [uri |-> "/out/art2", type |-> "", metadata |-> EmptyDict]>> :
             a \in RuntimeArtifacts}

\* ExecutorOutput, ExecutorInput and ComponentSpec of one finished step, and the
\* output files it left: the declared parameter types, the inline parameter
\* values, the artifacts returned under "art", whether "art" is declared a
\* list, and the files.
RawMessage(types, parameter_values, artifact_list, is_artifact_list, files) ==
    [executor_output |->
        [parameter_values |-> parameter_values,
         artifacts |-> [art |-> artifact_list]],
     executor_input |->
        [outputs |->
            [parameters |-> [k \in DOMAIN types |-> [output_file |-> OutputFile(k)]],
             artifacts |-> [art |-> [artifacts |-> <<[type |-> "system.Dataset"]>>]]]],
     component_spec |->
        [output_definitions |->
            [parameters |-> [k \in DOMAIN types |-> [parameter_type |-> types[k]]],
             artifacts |-> [art |-> [is_artifact_list |-> is_artifact_list]]]],
     files |-> files]

\* A step with a second artifact output, "model", declared with another type:
\* the raw message returns the artifacts of both outputs.
WithModel(raw, artifact_list) ==
    [raw EXCEPT
        !.executor_output.artifacts = [art |-> @.art, model |-> artifact_list],
        !.executor_input.outputs.artifacts =
            [art |-> @.art, model |-> [artifacts |-> <<[type |-> "system.Model"]>>]],
        !.component_spec.output_definitions.artifacts =
            [art |-> @.art, model |-> [is_artifact_list |-> TRUE]]]

\* An inline value for a parameter, or none.
Inline(parameter_key, values) ==
    {EmptyDict} \cup {(parameter_key :> w) : w \in values}

RawMessages ==
    {RawMessage(types, y @@ n, <<[uri |-> "/out/art", type |-> "", metadata |-> EmptyDict]>>, FALSE, EmptyDict) :
        types \in [{"y", "n"} -> ParameterTypes],
        y \in Inline("y", OutputValues),
        n \in Inline("n", {NumberValue(h) : h \in Halves})}
    \cup
    {RawMessage(types, y, <<[uri |-> "/out/art", type |-> "", metadata |-> EmptyDict]>>, FALSE, files) :
        types \in [{"y"} -> ParameterTypes],
        y \in Inline("y", {NumberValue(4)}),
        files \in {(OutputFile("y") :> text) : text \in FileTexts}}
    \cup
    {RawMessage([y |-> "NUMBER_INTEGER"], [y |-> NumberValue(6)], artifact_list,
                is_artifact_list, EmptyDict) :
        artifact_list \in ArtifactLists, is_artifact_list \in BOOLEAN}
    \cup
    {RawMessage([y |-> ty, n |-> "NUMBER_DOUBLE"], y @@ [n |-> NumberValue(2)],
                <<[uri |-> "/out/art", type |-> "", metadata |-> EmptyDict]>>, FALSE,
                files) :
        ty \in ParameterTypes,
        y \in Inline("y", {NumberValue(4)}),
        files \in {(OutputFile("y") :> text) : text \in FileTexts}}
    \cup
    {WithModel(RawMessage([y |-> "STRING"], [y |-> StringValue("a")], artifact_list,
                          FALSE, EmptyDict), model_list) :
        artifact_list \in ArtifactLists, model_list \in ArtifactLists}

\* The state of run_dag while only the codec is exercised: no call under way.
CodecInit ==
    /\ pipeline = [root |-> PlainShape(RootTasks), nested |-> PlainShape(NestedTasks),
                   arguments |-> EmptyDict, inputs |-> StandardInputs]
    /\ stores = <<>>
    /\ stack = <<>>
    /\ inflight = {}
    /\ log = <<>>
    /\ result = [state |-> "idle", error |-> "", ret |-> NoReturn, path |-> <<>>]
    /\ \/ \E w \in WireInputs : codec = [CodecIdle EXCEPT !.pc = "wire", !.x = w]
       \/ \E n \in NativeInputs : codec = [CodecIdle EXCEPT !.pc = "native", !.x = n]
       \/ \E r \in RawMessages : codec = [CodecIdle EXCEPT !.pc = "raw", !.x = r]

\* pb2_value_to_python of a wire value, or of what the encoder made of a native one
PbValueToPython ==
    /\ \/ /\ codec.pc = "wire"
          /\ LET y == pb2_value_to_python(codec.x)
             IN codec' = [codec EXCEPT !.y = y,
                                       !.pc = IF IsRaise(y) THEN "raised" ELSE "decoded"]
       \/ /\ codec.pc = "encoded"
          /\ LET z == pb2_value_to_python(codec.y)
             IN codec' = [codec EXCEPT !.z = z,
                                       !.pc = IF IsRaise(z) THEN "raised"
                                              ELSE "encoded-decoded"]
    /\ UNCHANGED <<pipeline, stores, stack, inflight, log, result>>

\* to_protobuf_value of a native value, or of what the decoder made of a wire one
ToProtobufValue ==
    /\ \/ /\ codec.pc = "native"
          /\ LET y == to_protobuf_value(codec.x)
             IN codec' = [codec EXCEPT !.y = y,
                                       !.pc = IF y = WireRaises THEN "raised"
                                              ELSE "encoded"]
       \/ /\ codec.pc = "decoded"
          /\ LET z == to_protobuf_value(codec.y)
             IN codec' = [codec EXCEPT !.z = z,
                                       !.pc = IF z = WireRaises THEN "raised"
                                              ELSE "decoded-encoded"]
    /\ UNCHANGED <<pipeline, stores, stack, inflight, log, result>>

\* get_outputs_from_executor_output of the raw message of a finished step
GetOutputsFromExecutorOutput ==
    /\ codec.pc = "raw"
    /\ LET outputs == get_outputs_from_executor_output(
                          codec.x.executor_output, codec.x.executor_input,
                          codec.x.component_spec, codec.x.files)
           typed == add_type_to_executor_output(codec.x.executor_input,
                                                codec.x.executor_output)
           decoded == OutputsDict(codec.x.executor_output, codec.x.executor_input,
                                  codec.x.component_spec, codec.x.files)
       IN codec' = [codec EXCEPT !.y = outputs,
                                 !.z = typed,
                                 !.w = decoded,
                                 !.pc = IF outputs.raised THEN "raised"
                                        ELSE "normalized"]
    /\ UNCHANGED <<pipeline, stores, stack, inflight, log, result>>

\* The task the normalized step is, in the graph that runs it.
StepTask == "a"

\* The collaborator hands the normalized outputs back with SUCCESS, and run_dag
\* puts them into the store of the level, one put_task_output per output.
PutTaskOutputs ==
    /\ codec.pc = "normalized"
    /\ stores' = <<put_task_outputs(IOStore, StepTask, codec.y.outputs)>>
    /\ log' = WriteEvents(<<>>, 1, StepTask, codec.y.outputs)
    /\ codec' = [codec EXCEPT !.pc = "recorded"]
    /\ UNCHANGED <<pipeline, stack, inflight, result>>

CodecNext ==
    \/ PbValueToPython
    \/ ToProtobufValue
    \/ GetOutputsFromExecutorOutput
    \/ PutTaskOutputs

CodecSpec == CodecInit /\ [][CodecNext]_vars

----------------------------------------------------------------------------
(* run_dag *)

Top == stack[Len(stack)]

SetTop(f) == [stack EXCEPT ![Len(stack)] = f]

Frame(component_name, io_store, path, dag_arguments) ==
    [component_name |-> component_name, io_store |-> io_store, path |-> path,
     dag_arguments |-> dag_arguments, pc |-> "entry", sorted_tasks |-> <<>>,
     task_name |-> "", ret |-> NoReturn]

\* Mutant: the error is caught and handed to the caller as a failed run.
RaiseErrorAsFailure(path, msg) ==
    /\ stack' = <<>>
    /\ result' = [state |-> "returned", error |-> msg,
                  ret |-> [outputs |-> EmptyDict, status |-> FAILURE,
                           fail_task_name |-> None],
                  path |-> path]

\* An exception no run_dag activation catches: it ends the whole run.
RaiseErrorAt(path, msg) ==
    /\ stack' = <<>>
    /\ result' = [state |-> "raised", error |-> msg, ret |-> NoReturn, path |-> path]

RaiseError(msg) == RaiseErrorAt(Top.path, msg)

Init ==
    /\ pipeline \in Pipelines
    /\ stores = <<IOStore>>
    /\ stack = <<Frame("root", 1, <<>>, pipeline.arguments)>>
    /\ inflight = {}
    /\ log = <<>>
    /\ result = [state |-> "running", error |-> "", ret |-> NoReturn, path |-> <<>>]
    /\ codec = CodecIdle

\* run_dag up to its loop: defaults, parent inputs, task order
RunDagEntry ==
    /\ stack # <<>>
    /\ Top.pc = "entry"
    /\ LET f == Top
           dag_component_spec == components[f.component_name]
           dag_arguments_with_defaults ==
               bind_defaults_to_dag_arguments(f.dag_arguments,
                                              dag_component_spec.input_definitions)
           sorted == SequenceTasks(dag_component_spec.dag)
       IN IF \E k \in DOMAIN dag_arguments_with_defaults :
                 IsRaise(dag_arguments_with_defaults[k])
          THEN /\ RaiseError("Unknown value type")
               /\ stores' = stores
          ELSE /\ stores' = [stores EXCEPT ![f.io_store] =
                                put_parent_inputs(@, dag_arguments_with_defaults)]
               /\ IF sorted.cycle
                  THEN RaiseError("cycle among the tasks")
                  ELSE /\ stack' = SetTop([f EXCEPT !.pc = "loop",
                                                    !.sorted_tasks = sorted.tasks])
                       /\ result' = result
    /\ UNCHANGED <<pipeline, inflight, log, codec>>

\* One pass of the loop up to the call that runs the task
RunDagIterate ==
    /\ stack # <<>>
    /\ Top.pc = "loop"
    /\ Top.sorted_tasks # <<>>
    /\ LET f == Top
           dag_spec == components[f.component_name].dag
           task_name == PopTask(f.sorted_tasks)
           task_spec == dag_spec.tasks[task_name]
           invalid == validate_task_spec_not_loop_or_condition(task_spec)
           component_name == task_spec.component_ref.name
           component_spec == components[component_name]
           implementation == component_spec.implementation
           io_store == stores[f.io_store]
           popped == Append(log, PopEvent(f.path, f.io_store, task_name))
           g == [f EXCEPT !.sorted_tasks = PopRest(f.sorted_tasks),
                          !.task_name = task_name]
       IN IF invalid # ""
          THEN /\ RaiseError(invalid)
               /\ log' = popped
               /\ UNCHANGED <<stores, inflight>>
          ELSE IF implementation = "dag"
          THEN /\ stores' = Append(stores, IOStore)
               /\ inflight' = inflight
               /\ IF make_task_arguments_raises(task_spec.inputs, io_store)
                  THEN /\ RaiseError(make_task_arguments_error(task_spec.inputs,
                                                                io_store))
                       /\ log' = popped
                  ELSE /\ stack' = Append(SetTop([g EXCEPT !.pc = "call"]),
                                      Frame(component_name,
                                            SubDagIoStore(f.io_store, Len(stores) + 1),
                                            Append(f.path, task_name),
                                            make_task_arguments(task_spec.inputs,
                                                                io_store)))
                       /\ log' = Append(popped, DispatchEvent(f.path, task_name, "dag"))
                       /\ result' = result
          ELSE IF implementation = "executor_label"
          THEN LET executor_spec == executors[component_spec.executor_label]
               IN IF make_task_arguments_raises(task_spec.inputs, io_store)
                  THEN /\ RaiseError(make_task_arguments_error(task_spec.inputs,
                                                                io_store))
                       /\ log' = popped
                       /\ UNCHANGED <<stores, inflight>>
                  ELSE IF ExecutorBranch(executor_spec) # "raise"
                  THEN /\ inflight' = inflight \cup
                            {[path |-> f.path, task |-> task_name,
                              collaborator |-> ExecutorBranch(executor_spec),
                              arguments |-> make_task_arguments(task_spec.inputs,
                                                                io_store)]}
                       /\ stack' = SetTop([g EXCEPT !.pc = AfterDispatchPc])
                       /\ log' = Append(popped, DispatchEvent(f.path, task_name,
                                                  ExecutorBranch(executor_spec)))
                       /\ UNCHANGED <<stores, result>>
                  ELSE /\ RaiseError("Got unknown spec in ExecutorSpec.")
                       /\ log' = popped
                       /\ UNCHANGED <<stores, inflight>>
          ELSE /\ RaiseError("Got unknown component implementation")
               /\ log' = popped
               /\ UNCHANGED <<stores, inflight>>
    /\ UNCHANGED <<pipeline, codec>>

\* The rest of a pass, once the task's (outputs, status, failing task) is known:
\* f is the activation the task belongs to, base the activations around it.
AfterTask(base, f, outputs, task_status, fail_task_name, history) ==
    LET branch == TaskStatusBranch(task_status)
        seen == Append(history, StatusEvent(f.path, f.task_name, task_status))
    IN IF branch = "exit"
       THEN /\ stack' = Append(base, [f EXCEPT !.pc = "return",
                                        !.ret = FailureReturn(outputs, fail_task_name)])
            /\ stores' = stores
            /\ log' = seen
            /\ result' = result
       ELSE IF branch = "record"
       THEN /\ stack' = Append(base, [f EXCEPT !.pc = "loop"])
            /\ stores' = [stores EXCEPT ![f.io_store] =
                             put_task_outputs(@, f.task_name, outputs)]
            /\ log' = seen \o WriteEvents(f.path, f.io_store, f.task_name, outputs)
            /\ result' = result
       ELSE /\ RaiseErrorAt(f.path, UnknownStatusError(task_status))
            /\ stores' = stores
            /\ log' = seen

\* The collaborator ends the step, and the pass goes on from its result
CollaboratorReturns ==
    /\ stack # <<>>
    /\ Top.pc = "await"
    /\ \E s \in inflight, r \in CollaboratorResults :
          /\ s.path = Top.path
          /\ s.task = Top.task_name
          /\ inflight' = inflight \ {s}
          /\ AfterTask(SubSeq(stack, 1, Len(stack) - 1), Top, r.outputs, r.status,
                       LeafFailTaskName(Top.task_name, r.status), log)
    /\ UNCHANGED <<pipeline, codec>>

\* After the loop: the declared outputs of the graph
RunDagFinish ==
    /\ stack # <<>>
    /\ Top.pc = "loop"
    /\ Top.sorted_tasks = <<>>
    /\ LET f == Top
           dag_outputs_spec == components[f.component_name].dag.outputs
           io_store == stores[f.io_store]
       IN IF get_dag_outputs_raises(dag_outputs_spec, io_store)
          THEN RaiseError(get_dag_outputs_error(dag_outputs_spec, io_store))
          ELSE /\ stack' = SetTop([f EXCEPT !.pc = "return",
                      !.ret = SuccessReturn(get_dag_outputs(dag_outputs_spec, io_store))])
               /\ result' = result
    /\ UNCHANGED <<pipeline, stores, inflight, log, codec>>

\* A run_dag call returns: to the top-level caller, or into the pass of the
\* calling level that ran it as a task
RunDagReturn ==
    /\ stack # <<>>
    /\ Top.pc = "return"
    /\ LET f == Top
           returned == Append(log, ReturnEvent(f.path, f.ret))
       IN IF Len(stack) = 1
          THEN /\ stack' = <<>>
               /\ result' = [state |-> "returned", error |-> "", ret |-> f.ret,
                             path |-> <<>>]
               /\ log' = returned
               /\ stores' = stores
          ELSE LET caller == stack[Len(stack) - 1]
               IN AfterTask(SubSeq(stack, 1, Len(stack) - 2), caller,
                            NestedOutputs(f.ret), f.ret.status,
                            NestedFailTaskName(caller.task_name, f.ret), returned)
    /\ UNCHANGED <<pipeline, inflight, codec>>

Next ==
    \/ RunDagEntry
    \/ RunDagIterate
    \/ CollaboratorReturns
    \/ RunDagFinish
    \/ RunDagReturn

Spec == Init /\ [][Next]_vars

\* run_dag is sequential code: the statement it stands at is executed; and a
\* collaborator that was called returns.
FairSpec ==
    /\ Init
    /\ [][Next]_vars
    /\ WF_vars(RunDagEntry \/ RunDagIterate \/ RunDagFinish \/ RunDagReturn)
    /\ WF_vars(CollaboratorReturns)

----------------------------------------------------------------------------
(* Properties *)

EventsOf(ev) == {i \in 1..Len(log) : log[i].ev = ev}

Failures == {i \in EventsOf("status") : log[i].status = FAILURE}

\* The first failure of the run: the status a collaborator reported for a leaf.
FirstFailure == CHOOSE i \in Failures : \A j \in Failures : i <= j

\* The events of one kind about one task of one activation.
Idx(ev, path, task) ==
    {i \in 1..Len(log) : log[i].ev = ev /\ log[i].path = path /\ log[i].task = task}

DispatchedTasks(path) ==
    {log[i].task : i \in {j \in EventsOf("dispatch") : log[j].path = path}}

\* C1: fail-fast. Once a task reported FAILURE, at whatever depth, no task is
\* popped, dispatched or recorded any more at any level, no step is in flight,
\* no error is raised, and the run ends by returning ({}, FAILURE, name of the
\* task that failed) to the top-level caller.
C1_FailFast ==
    \A i \in Failures :
        /\ \A j \in (i + 1)..Len(log) : log[j].ev \notin {"pop", "dispatch", "write"}
        /\ inflight = {}
        /\ result.state # "raised"
        /\ stack = <<>> => result.state = "returned"
        /\ result.state = "returned" =>
              result.ret = [outputs |-> EmptyDict, status |-> FAILURE,
                            fail_task_name |-> log[FirstFailure].task]

\* The chain a -> b -> c of container steps where b fails: ({}, FAILURE, "b"),
\* and c was never dispatched.
C1_Witness ==
    /\ pipeline.root = PlainShape(RootTasks)
    /\ result.state = "returned"
    /\ result.ret = [outputs |-> EmptyDict, status |-> FAILURE, fail_task_name |-> "b"]
    /\ DispatchedTasks(<<>>) = {"a", "b"}

\* C2: when a task of a nested graph fails, every run_dag call that returns
\* afterwards returns ({}, FAILURE, name) with the name of the leaf task that
\* failed, as reported where it failed, not the name of a task that is a nested
\* graph on the way up.
C2_NestedFailureName ==
    \A i \in Failures :
        /\ i = FirstFailure =>
              \E d \in Idx("dispatch", log[i].path, log[i].task) :
                  d < i /\ log[d].kind \in {"container", "importer"}
        /\ \A j \in {r \in EventsOf("return") : r > i} :
              /\ log[j].status = FAILURE
              /\ log[j].outputs = EmptyDict
              /\ log[j].fail = log[FirstFailure].task
        /\ \A k \in 1..Len(stack) :
              stack[k].pc = "return" =>
                  stack[k].ret = [outputs |-> EmptyDict, status |-> FAILURE,
                                  fail_task_name |-> log[FirstFailure].task]

\* Task a fails inside the graph run as task b of the root: the nested call and
\* the top-level call both returned ({}, FAILURE, "a"), not "b".
C2_Witness ==
    /\ result.state = "returned"
    /\ Failures # {}
    /\ log[FirstFailure].path = <<"b">>
    /\ log[FirstFailure].task = "a"
    /\ result.ret.fail_task_name = "a"
    /\ {log[j].path : j \in {r \in EventsOf("return") : r > FirstFailure}}
          = {<<>>, <<"b">>}

TaskSpecAt(path, t) == TaskSpec(Len(path) + 1, t)

\* C3: for every dependency edge (A, B) of a graph level, B is popped from the
\* sequencer's result only after A was popped, dispatched, reported SUCCESS and
\* had the output B consumes written to the store of the level.
C3_DependencyOrder ==
    \A j \in EventsOf("pop") :
        \A A \in Producers(TaskSpecAt(log[j].path, log[j].task)) :
            \E p \in Idx("pop", log[j].path, A) :
                \E d \in Idx("dispatch", log[j].path, A) :
                    /\ p < d
                    /\ \E st \in Idx("status", log[j].path, A) :
                          /\ d < st
                          /\ log[st].status = SUCCESS
                          /\ \E w \in Idx("write", log[j].path, A) :
                                st < w /\ w < j /\ log[w].key = "y"

\* The root graph declared against its dependencies (a consumes b, b consumes
\* c) has run to its end: c, b, a were popped in that order.
C3_Witness ==
    /\ pipeline.root.wiring = ReverseWiring(RootTasks)
    /\ result.state = "returned"
    /\ result.ret.status = SUCCESS
    /\ \E i, j, k \in EventsOf("pop") :
          /\ i < j /\ j < k
          /\ log[i].path = <<>> /\ log[j].path = <<>> /\ log[k].path = <<>>
          /\ log[i].task = "c" /\ log[j].task = "b" /\ log[k].task = "a"

ControlFlowErrors ==
    {"dsl.Condition is not supported by local pipeline execution.",
     "dsl.ParallelFor is not supported by local pipeline execution."}

RejectedControlFlow == result.state = "raised" /\ result.error \in ControlFlowErrors

IsControlFlowTask(path, t) ==
    \/ TaskSpecAt(path, t).trigger_policy.condition # ""
    \/ TaskSpecAt(path, t).iterator # None

DagOutputsAt(path) == components[DagNames[Len(path) + 1]].dag.outputs

DagTasksAt(path) == Range(components[DagNames[Len(path) + 1]].dag.task_names)

\* C5: a run_dag call that returns SUCCESS returns (outputs, SUCCESS, None): all
\* tasks of its level reported SUCCESS, and outputs maps each declared output
\* name to the value written for its selector's (producer task, output key).
\* When all tasks of the root graph succeeded and its selectors resolve, the
\* run ends with that result.
C5_OutputProjection ==
    /\ \A j \in EventsOf("return") :
          log[j].status = SUCCESS =>
              LET spec == DagOutputsAt(log[j].path)
              IN /\ log[j].fail = None
                 /\ DOMAIN log[j].outputs =
                        DOMAIN spec.parameters \cup DOMAIN spec.artifacts
                 /\ \A k \in DOMAIN spec.parameters :
                       \E w \in Idx("write", log[j].path,
                                    spec.parameters[k].value_from_parameter
                                        .producer_subtask) :
                           /\ w < j
                           /\ log[w].key = spec.parameters[k].value_from_parameter
                                               .output_parameter_key
                           /\ log[w].value = log[j].outputs[k]
                 /\ \A t \in DagTasksAt(log[j].path) :
                       \E st \in Idx("status", log[j].path, t) :
                           st < j /\ log[st].status = SUCCESS
    /\ result.state = "returned" /\ result.ret.status = SUCCESS =>
          /\ log[Len(log)].ev = "return"
          /\ log[Len(log)].path = <<>>
          /\ result.ret = [outputs |-> log[Len(log)].outputs, status |-> SUCCESS,
                           fail_task_name |-> None]
    /\ ( /\ stack = <<>>
         /\ \A t \in RootTasksSet :
               \E st \in Idx("status", <<>>, t) : log[st].status = SUCCESS
         /\ ~get_dag_outputs_raises(DagOutputsAt(<<>>), stores[1]) )
       => (result.state = "returned" /\ result.ret.status = SUCCESS)

\* The root graph's output y is selected from task a, which wrote 1 while a
\* later task wrote 0: the run returned ({y: 1}, SUCCESS, None).
C5_Witness ==
    /\ result.state = "returned"
    /\ result.ret = [outputs |-> [y |-> PyInt(1)], status |-> SUCCESS,
                     fail_task_name |-> None]
    /\ pipeline.root.out = "a"
    /\ get_task_output(stores[1], "c", "y") = PyInt(0)

\* C6: every activation of run_dag has a store of its own. The store of a
\* nested activation is new and empty when the call starts, its parent inputs
\* are then arguments resolved for the task that is the nested graph, or
\* defaults of the nested graph's own inputs, and its task outputs are only
\* those its own tasks wrote: no output of a task of the calling level is in it.
C6_StoreIsolation ==
    /\ \A i, j \in 1..Len(stack) : i # j => stack[i].io_store # stack[j].io_store
    /\ LET writes == EventsOf("write")
       IN \A w1 \in writes : \A w2 \in writes :
              log[w1].store = log[w2].store => log[w1].path = log[w2].path
    /\ \A i \in 2..Len(stack) :
          LET f == stack[i]
              caller == stack[i - 1]
              io_store == stores[f.io_store]
          IN /\ f.pc = "entry" => io_store = IOStore
             /\ f.pc # "entry" =>
                   \A k \in DOMAIN io_store.parent_input_data :
                       IF k \in DOMAIN f.dag_arguments
                       THEN io_store.parent_input_data[k] = f.dag_arguments[k]
                       ELSE io_store.parent_input_data[k] =
                                pb2_value_to_python(
                                    components[f.component_name].input_definitions
                                        .parameters[k].default_value)
             /\ f.dag_arguments =
                    make_task_arguments(
                        TaskSpecAt(caller.path, caller.task_name).inputs,
                        stores[caller.io_store])
             /\ \A k \in DOMAIN io_store.task_output_data :
                   \E w \in Idx("write", f.path, k[1]) :
                       /\ log[w].store = f.io_store
                       /\ log[w].key = k[2]
                       /\ log[w].value = io_store.task_output_data[k]

\* A nested graph runs as task b of the root: its own task a has written y to
\* its store while the root's store holds another y for the root's task a.
C6_Witness ==
    /\ Len(stack) = 2
    /\ stack[2].path = <<"b">>
    /\ has_task_output(stores[stack[1].io_store], "a", "y")
    /\ has_task_output(stores[stack[2].io_store], "a", "y")
    /\ get_task_output(stores[stack[1].io_store], "a", "y")
          # get_task_output(stores[stack[2].io_store], "a", "y")

AllTaskNames == RootTasksSet \cup Range(NestedTasks)

WellFormedTriple(ret) ==
    /\ ret.status \in Status
    /\ ret.status = FAILURE =>
          ret.fail_task_name # None /\ ret.fail_task_name # ""
          /\ ret.fail_task_name \in AllTaskNames
    /\ ret.status = SUCCESS => ret.fail_task_name = None

\* C7: every triple a run_dag call returns, at every level, has a status of
\* SUCCESS or FAILURE; with FAILURE the failing-task name is the non-empty name
\* of a task, with SUCCESS it is None.
C7_ResultTriple ==
    /\ \A j \in EventsOf("return") :
          WellFormedTriple([outputs |-> log[j].outputs, status |-> log[j].status,
                            fail_task_name |-> log[j].fail])
    /\ \A k \in 1..Len(stack) : stack[k].pc = "return" => WellFormedTriple(stack[k].ret)
    /\ result.state = "returned" => WellFormedTriple(result.ret)

\* The graph run as task a of the root returned SUCCESS with no name, then the
\* graph run as task b failed in its task b: that call and the top-level call
\* returned FAILURE with the name.
C7_Witness ==
    /\ result.state = "returned"
    /\ result.ret.status = FAILURE
    /\ result.ret.fail_task_name = "b"
    /\ \E j \in EventsOf("return") :
          log[j].path = <<"a">> /\ log[j].status = SUCCESS /\ log[j].fail = None
    /\ \E j \in EventsOf("return") :
          log[j].path = <<"b">> /\ log[j].status = FAILURE /\ log[j].fail = "b"

\* C8: task outputs are written once. No (store, task, key) is written twice,
\* a write happens only after the task's one status, which is SUCCESS, the
\* store holds what was written, and it holds nothing that was not written.
C8_WriteOnce ==
    /\ LET writes == EventsOf("write")
       IN \A w1 \in writes : \A w2 \in writes :
              ( /\ log[w1].store = log[w2].store
                /\ log[w1].task = log[w2].task
                /\ log[w1].key = log[w2].key ) => w1 = w2
    /\ \A w \in EventsOf("write") :
          /\ \E st \in Idx("status", log[w].path, log[w].task) : st < w
          /\ \A st \in Idx("status", log[w].path, log[w].task) :
                log[st].status = SUCCESS
          /\ log[w].store \in 1..Len(stores)
          /\ has_task_output(stores[log[w].store], log[w].task, log[w].key)
          /\ get_task_output(stores[log[w].store], log[w].task, log[w].key)
                = log[w].value
    /\ \A s \in 1..Len(stores) :
          \A k \in DOMAIN stores[s].task_output_data :
              \E w \in EventsOf("write") :
                  log[w].store = s /\ <<log[w].task, log[w].key>> = k

\* A run with a nested graph has ended in SUCCESS: the root store holds the
\* outputs of its three tasks, the nested store those of its two.
C8_Witness ==
    /\ result.state = "returned"
    /\ result.ret.status = SUCCESS
    /\ Len(stores) = 2
    /\ Cardinality(DOMAIN stores[1].task_output_data) = 3
    /\ Cardinality(DOMAIN stores[2].task_output_data) = 2

\* C9: within one activation of run_dag a task is popped and dispatched at most
\* once, also after it failed, and never again once its status is known.
C9_DispatchOnce ==
    /\ \A d \in EventsOf("dispatch") :
          Idx("dispatch", log[d].path, log[d].task) = {d}
    /\ \A p \in EventsOf("pop") :
          Idx("pop", log[p].path, log[p].task) = {p}
    /\ \A st \in EventsOf("status") :
          \A d \in Idx("dispatch", log[st].path, log[st].task) : d < st

\* The same nested graph ran as task a and as task b of the root, its task a
\* once in each activation, and the run ended with a failure in the second.
C9_Witness ==
    /\ result.state = "returned"
    /\ result.ret.status = FAILURE
    /\ \E d1, d2 \in EventsOf("dispatch") :
          /\ log[d1].path = <<"a">> /\ log[d1].task = "a"
          /\ log[d2].path = <<"b">> /\ log[d2].task = "a"
    /\ log[FirstFailure].path = <<"b">>

\* C10: at most one leaf step is in flight. While one is, the innermost
\* activation waits for it and every enclosing activation waits in its nested
\* call; nothing is popped, dispatched or written between a step's dispatch
\* and its status.
C10_OneInFlight ==
    /\ Cardinality(inflight) <= 1
    /\ inflight # {} =>
          /\ stack # <<>>
          /\ Top.pc = "await"
          /\ \A s \in inflight : s.path = Top.path /\ s.task = Top.task_name
    /\ \A k \in 1..(Len(stack) - 1) : stack[k].pc = "call"
    /\ (stack # <<>> /\ Top.pc = "await") => inflight # {}
    /\ \A d \in EventsOf("dispatch") :
          log[d].kind \in {"container", "importer"} =>
              \/ d = Len(log) /\ inflight # {}
              \/ /\ d < Len(log)
                 /\ log[d + 1].ev = "status"
                 /\ log[d + 1].path = log[d].path
                 /\ log[d + 1].task = log[d].task

\* A step of a nested graph is in flight, after earlier steps have ended, while
\* the enclosing level waits in its nested call.
C10_Witness ==
    /\ Len(stack) = 2
    /\ Cardinality(inflight) = 1
    /\ \A s \in inflight : Len(s.path) = 1
    /\ EventsOf("write") # {}

\* The native value with every int in it replaced by the float of its value.
RECURSIVE IntsAsFloats(_)
IntsAsFloats(value) ==
    CASE value.t = "int" -> PyFloat(2 * value.v)
      [] value.t = "list" -> PyList([i \in 1..Len(value.v) |-> IntsAsFloats(value.v[i])])
      [] value.t = "dict" -> PyDict([k \in DOMAIN value.v |-> IntsAsFloats(value.v[k])])
      [] OTHER -> value

\* C12 as stated: decoding the encoding of a native value returns that value,
\* encoding the decoding of a wire value returns that wire value, and neither
\* fails on a value all of whose parts are null, number, string, boolean, list
\* or structure.
C12_RoundTrip ==
    /\ codec.pc = "encoded-decoded" => codec.z = codec.x
    /\ codec.pc = "decoded-encoded" => codec.z = codec.x
    /\ (codec.pc = "raised" /\ codec.x \notin RawMessages) =>
          codec.x \in WireInputs \ (WireValues \cup WirePairs)

\* C12 amended: encoding the decoding of a wire value returns that wire value;
\* decoding the encoding of a native value returns that value with every
\* integer in it as the float of the same number, hence the value itself when
\* it holds no integer. Neither fails on a value all of whose parts are tagged.
C12_RoundTripUpToNumbers ==
    /\ codec.pc = "encoded-decoded" =>
          /\ codec.z = IntsAsFloats(codec.x)
          /\ IntsAsFloats(codec.x) = codec.x => codec.z = codec.x
    /\ codec.pc = "decoded-encoded" => codec.z = codec.x
    /\ (codec.pc = "raised" /\ codec.x \notin RawMessages) =>
          codec.x \in WireInputs \ (WireValues \cup WirePairs)
    /\ codec.pc \in {"decoded", "decoded-encoded"} =>
          codec.x \in WireValues \cup WirePairs

\* A structure holding a list holding 1.5 came back from encoding and decoding.
C12_Witness ==
    /\ codec.pc = "encoded-decoded"
    /\ codec.x = PyDict([k \in Keys |-> PyList(<<PyFloat(3)>>)])
    /\ codec.z = codec.x

DeclaredInteger(raw) ==
    {k \in DOMAIN raw.component_spec.output_definitions.parameters :
        raw.component_spec.output_definitions.parameters[k].parameter_type
            = "NUMBER_INTEGER"}

\* C11: when get_outputs_from_executor_output returns, every output parameter
\* declared NUMBER_INTEGER is in the outputs with a native int, and one whose
\* wire form is the number n.0, with no output file, has the int n.
C11_IntegerOutputs ==
    codec.pc = "normalized" =>
        \A k \in DeclaredInteger(codec.x) :
            /\ k \in DOMAIN codec.y.outputs
            /\ codec.y.outputs[k].t = "int"
            /\ \A n \in (0 - MaxVal - 2)..(MaxVal + 2) :
                  ( /\ codec.x.files = EmptyDict
                    /\ codec.x.executor_output.parameter_values[k] = NumberValue(2 * n) )
                  => codec.y.outputs[k] = PyInt(n)

\* The wire number 3.0 of the declared-integer output y came out as the int 3,
\* next to a declared-double output n left a float.
C11_Witness ==
    /\ codec.pc = "normalized"
    /\ codec.x.component_spec.output_definitions.parameters
          = [y |-> [parameter_type |-> "NUMBER_INTEGER"],
             n |-> [parameter_type |-> "NUMBER_DOUBLE"]]
    /\ codec.x.executor_output.parameter_values
          = [y |-> NumberValue(6), n |-> NumberValue(6)]
    /\ codec.y.outputs["y"] = PyInt(3)
    /\ codec.y.outputs["n"] = PyFloat(6)

\* C13: once an activation of run_dag is past its entry, the parent inputs of
\* its store are the complete argument set: every argument of the argument map
\* is stored under its name with the supplied value, and every declared input
\* parameter absent from the map is stored with its decoded default.
C13_CompleteArguments ==
    \A i \in 1..Len(stack) :
        LET f == stack[i]
            io_store == stores[f.io_store]
            declared == components[f.component_name].input_definitions.parameters
        IN f.pc # "entry" =>
              /\ \A k \in DOMAIN f.dag_arguments :
                    /\ has_parent_input(io_store, k)
                    /\ get_parent_input(io_store, k) = f.dag_arguments[k]
              /\ \A k \in DOMAIN declared \ DOMAIN f.dag_arguments :
                    /\ has_parent_input(io_store, k)
                    /\ get_parent_input(io_store, k)
                          = pb2_value_to_python(declared[k].default_value)

\* The entry of the store an input reads, by the first binding form the code
\* finds: a task output, a parent input, or nothing of the store.
ParameterReference(input_spec) ==
    IF HasField(input_spec, "task_output_parameter")
    THEN [from |-> "task", task |-> input_spec.task_output_parameter.producer_task,
          key |-> input_spec.task_output_parameter.output_parameter_key]
    ELSE IF HasField(input_spec, "runtime_value")
    THEN [from |-> "", task |-> "", key |-> ""]
    ELSE IF HasField(input_spec, "component_input_parameter")
    THEN [from |-> "parent", task |-> "", key |-> input_spec.component_input_parameter]
    ELSE [from |-> "", task |-> "", key |-> ""]

ArtifactReference(input_spec) ==
    IF HasField(input_spec, "task_output_artifact")
    THEN [from |-> "task", task |-> input_spec.task_output_artifact.producer_task,
          key |-> input_spec.task_output_artifact.output_artifact_key]
    ELSE IF HasField(input_spec, "component_input_artifact")
    THEN [from |-> "parent", task |-> "", key |-> input_spec.component_input_artifact]
    ELSE [from |-> "", task |-> "", key |-> ""]

References(task_spec) ==
    {ParameterReference(task_spec.inputs.parameters[n]) :
        n \in DOMAIN task_spec.inputs.parameters}
    \cup {ArtifactReference(task_spec.inputs.artifacts[n]) :
             n \in DOMAIN task_spec.inputs.artifacts}

\* The reference finds nothing in the store of the activation that popped the
\* task at event j: nothing was written for it before, or the store has no
\* such parent input.
Dangling(ref, j) ==
    \/ /\ ref.from = "task"
       /\ \A w \in Idx("write", log[j].path, ref.task) : w > j \/ log[w].key # ref.key
    \/ /\ ref.from = "parent"
       /\ ~has_parent_input(stores[log[j].store], ref.key)

\* C14: a task one of whose inputs references a task output or a parent input
\* that is not in the store is not dispatched: run_dag raises when it resolves
\* the task's arguments. No argument handed to a step or to a nested graph is
\* a value that stands for a failed lookup.
C14_MissingEntryRaises ==
    /\ \A j \in EventsOf("pop") :
          ( /\ ~IsControlFlowTask(log[j].path, log[j].task)
            /\ TaskSpecAt(log[j].path, log[j].task).component_ref.name # "comp-none"
            /\ \E ref \in References(TaskSpecAt(log[j].path, log[j].task)) :
                  Dangling(ref, j) )
          => /\ j = Len(log)
             /\ result.state = "raised"
             /\ stack = <<>>
             /\ Idx("dispatch", log[j].path, log[j].task) = {}
    /\ \A s \in inflight : \A n \in DOMAIN s.arguments : ~IsRaise(s.arguments[n])
    /\ \A i \in 1..Len(stack) :
          \A n \in DOMAIN stack[i].dag_arguments : ~IsRaise(stack[i].dag_arguments[n])

\* Task c of the root reads the output z of task a, which wrote only y: a and b
\* ran, c was popped and the run ended with the lookup's error.
C14_Witness ==
    /\ result.state = "raised"
    /\ result.error = NotInStore.v
    /\ pipeline.root.special = [task |-> "c", how |-> "unknown_key"]
    /\ log[Len(log)] = PopEvent(<<>>, 1, "c")
    /\ DispatchedTasks(<<>>) = {"a", "b"}
    /\ has_task_output(stores[1], "a", "y")

\* The binding forms an input of a task carries.
BindingForms(input_spec) == input_spec.fields

UnsupportedComponents == {"comp-none", "comp-resolver"}

\* The arguments of the task popped at event j resolve: every input has a
\* binding form the code knows, a constant where one is expected, and what it
\* references is in the store.
Resolvable(j) ==
    LET task_spec == TaskSpecAt(log[j].path, log[j].task)
    IN /\ \A ref \in References(task_spec) : ~Dangling(ref, j)
       /\ \A n \in DOMAIN task_spec.inputs.parameters :
             LET input_spec == task_spec.inputs.parameters[n]
             IN /\ BindingForms(input_spec) \notin {{}, {"task_final_status"}}
                /\ HasField(input_spec, "task_output_parameter")
                   \/ ~HasField(input_spec, "runtime_value")
                   \/ ( /\ input_spec.runtime_value.value = "constant"
                        /\ input_spec.runtime_value.constant # UnsetValue )
       /\ \A n \in DOMAIN task_spec.inputs.artifacts :
             BindingForms(task_spec.inputs.artifacts[n]) # {}

\* C16: a task whose component is neither a nested graph nor an executor
\* reference, or whose executor is neither an importer nor a container, is
\* never dispatched and has nothing written for it: run_dag raises when its
\* loop reaches the task, with the unsupported-implementation error of the
\* component or, once the task's arguments are resolved, of the executor.
C16_ClosedDispatch ==
    /\ \A j \in EventsOf("pop") :
          LET name == TaskSpecAt(log[j].path, log[j].task).component_ref.name
          IN name \in UnsupportedComponents =>
                /\ j = Len(log)
                /\ result.state = "raised"
                /\ result.path = log[j].path
                /\ stack = <<>>
                /\ ~IsControlFlowTask(log[j].path, log[j].task) =>
                      /\ name = "comp-none" =>
                            result.error = "Got unknown component implementation"
                      /\ (name = "comp-resolver" /\ Resolvable(j)) =>
                            result.error = "Got unknown spec in ExecutorSpec."
    /\ \A e \in EventsOf("dispatch") \cup EventsOf("status") \cup EventsOf("write") :
          TaskSpecAt(log[e].path, log[e].task).component_ref.name
              \notin UnsupportedComponents
    /\ \A d \in EventsOf("dispatch") : log[d].kind \in {"dag", "importer", "container"}
    /\ \A s \in inflight : s.collaborator \in {"importer", "container"}

\* Task b of the root has an executor that is neither an importer nor a
\* container: a ran and wrote its output, b was popped and the run ended with
\* the error, b never dispatched.
C16_Witness ==
    /\ result.state = "raised"
    /\ result.error = "Got unknown spec in ExecutorSpec."
    /\ pipeline.root.roles["b"] = "resolver"
    /\ log[Len(log)] = PopEvent(<<>>, 1, "b")
    /\ DispatchedTasks(<<>>) = {"a"}
    /\ has_task_output(stores[1], "a", "y")

\* The declared outputs of the graph run at a path cannot be projected: a
\* parameter selector that is not of a parameter, or an artifact output whose
\* selector list does not have exactly one entry.
UnsupportedOutputs(path) ==
    LET spec == DagOutputsAt(path)
    IN \/ \E k \in DOMAIN spec.parameters : spec.parameters[k].kind # "value_from_parameter"
       \/ \E k \in DOMAIN spec.artifacts : Len(spec.artifacts[k].artifact_selectors) # 1

ProjectionErrors ==
    {"'dsl.OneOf' is not yet supported in local execution.",
     "Got unknown 'parameter_selector_spec' kind",
     "Expected 1 artifact in ArtifactSelectorSpec."}

AllSucceeded(path) ==
    \A t \in DagTasksAt(path) :
        \E st \in Idx("status", path, t) : log[st].status = SUCCESS

\* C17: a graph one of whose declared outputs has a one-of selector, or an
\* artifact output without exactly one selector, never returns SUCCESS. Its
\* tasks run first; once all of them have succeeded the projection raises the
\* not-supported error and run_dag returns no result triple, at that level or
\* at an enclosing one.
C17_UnsupportedSelectorRaises ==
    /\ \A r \in EventsOf("return") :
          log[r].status = SUCCESS => ~UnsupportedOutputs(log[r].path)
    /\ (result.state = "raised" /\ result.error \in ProjectionErrors) =>
          /\ UnsupportedOutputs(result.path)
          /\ AllSucceeded(result.path)
          /\ \A k \in 0..Len(result.path) :
                \A r \in EventsOf("return") : log[r].path # SubSeq(result.path, 1, k)
          /\ DagOutputsAt(result.path).parameters["y"].kind = "value_from_oneof" =>
                result.error = "'dsl.OneOf' is not yet supported in local execution."
          /\ ( /\ DagOutputsAt(result.path).parameters["y"].kind = "value_from_parameter"
               /\ \E k \in DOMAIN DagOutputsAt(result.path).artifacts :
                     Len(DagOutputsAt(result.path).artifacts[k].artifact_selectors) # 1 )
             => result.error = "Expected 1 artifact in ArtifactSelectorSpec."
    /\ \A p \in {log[i].path : i \in 1..Len(log)} :
          ( /\ UnsupportedOutputs(p)
            /\ AllSucceeded(p)
            /\ \A i \in 1..Len(stack) : stack[i].path # p )
          => /\ result.state = "raised"
             /\ result.path = p
             /\ result.error \in ProjectionErrors

\* The graph run as task b of the root has a one-of selector: its two tasks
\* succeeded, the projection raised, and neither it nor the root returned.
C17_Witness ==
    /\ result.state = "raised"
    /\ result.error = "'dsl.OneOf' is not yet supported in local execution."
    /\ result.path = <<"b">>
    /\ AllSucceeded(<<"b">>)
    /\ \A r \in EventsOf("return") : FALSE

\* The graph levels around the one at a path, itself included.
EnclosingPaths(path) == {SubSeq(path, 1, k) : k \in 0..Len(path)}

\* C18 as stated: the failing-task name the top-level caller receives
\* identifies the failed task among the tasks of all graph levels on the way
\* to it: no other task of those levels has that name.
C18_QualifiedName ==
    (result.state = "returned" /\ result.ret.status = FAILURE) =>
        LET failed == log[FirstFailure]
        IN \A q \in EnclosingPaths(failed.path) :
              \A t \in DagTasksAt(q) :
                  <<q, t>> # <<failed.path, failed.task>> =>
                      t # result.ret.fail_task_name

\* C18 amended: the failing-task name the top-level caller receives is the
\* name the failed task has in its own graph, without the names of the
\* nested-graph tasks on the way to it, whatever the depth of the failure.
C18_LocalName ==
    (result.state = "returned" /\ result.ret.status = FAILURE) =>
        /\ Failures # {}
        /\ result.ret.fail_task_name = log[FirstFailure].task
        /\ result.ret.fail_task_name \in DagTasksAt(log[FirstFailure].path)
        /\ \A k \in 1..Len(log[FirstFailure].path) :
              \E d \in Idx("dispatch", SubSeq(log[FirstFailure].path, 1, k - 1),
                           log[FirstFailure].path[k]) : log[d].kind = "dag"

\* Task a of the graph run as task b of the root failed after task a of the
\* root had succeeded: the caller received "a".
C18_Witness ==
    /\ result.state = "returned"
    /\ result.ret.status = FAILURE
    /\ log[FirstFailure].path = <<"b">>
    /\ result.ret.fail_task_name = "a"
    /\ \E st \in Idx("status", <<>>, "a") : log[st].status = SUCCESS

MalformedGraphErrors ==
    ControlFlowErrors \cup ProjectionErrors
    \cup {"Got unknown component implementation", "Got unknown spec in ExecutorSpec.",
          "Invalid or missing input", "Expected constant.", NotInStore.v,
          "'dsl.ExitHandler' is not yet support for local execution."}

\* The task popped at event j cannot run: control flow, an unsupported
\* component, or an input that does not resolve.
MalformedTask(j) ==
    \/ IsControlFlowTask(log[j].path, log[j].task)
    \/ TaskSpecAt(log[j].path, log[j].task).component_ref.name \in UnsupportedComponents
    \/ ~Resolvable(j)

\* C19: a malformed-graph error is fatal at whatever depth it is raised. It
\* ends every enclosing run_dag call without a result triple: no call at or
\* around the level of the error returns, the top-level caller gets the error
\* and no (outputs, FAILURE, name), no step stays in flight and nothing is
\* popped or dispatched after the task that raised.
C19_MalformedGraphFatal ==
    /\ result.state = "raised" =>
          /\ stack = <<>>
          /\ inflight = {}
          /\ result.ret = NoReturn
          /\ \A q \in EnclosingPaths(result.path) :
                \A r \in EventsOf("return") : log[r].path # q
    /\ \A j \in EventsOf("pop") :
          MalformedTask(j) =>
              /\ j = Len(log)
              /\ result.state = "raised"
              /\ result.error \in MalformedGraphErrors \cup {"Unknown value type"}
              /\ result.path = log[j].path
              /\ Idx("dispatch", log[j].path, log[j].task) = {}
    /\ \A r \in EventsOf("return") :
          log[r].status = FAILURE => Failures # {} /\ FirstFailure < r

\* A parameter of task b of the nested graph has no binding form: the error
\* was raised at depth two after tasks of both levels had run, and ended the
\* run with no result.
C19_Witness ==
    /\ result.state = "raised"
    /\ result.error = "Invalid or missing input"
    /\ result.path = <<"b">>
    /\ DispatchedTasks(<<>>) = {"a", "b"}
    /\ DispatchedTasks(<<"b">>) = {"a"}
    /\ EventsOf("return") = {}

\* The tasks of the graph at a level depend on each other in a cycle.
Cyclic(level) == ExecutionOrder(components[DagNames[level]].dag, {}, <<>>).cycle

\* C20: when the tasks of a graph level depend on each other in a cycle, the
\* call of run_dag for that level ends at its entry with the sequencer's
\* error: no task of the level is popped or dispatched, and no activation of
\* the level gets into the loop.
C20_CycleRejected ==
    /\ \A i \in 1..Len(stack) :
          Cyclic(Len(stack[i].path) + 1) => stack[i].pc = "entry"
    /\ \A e \in 1..Len(log) :
          ~Cyclic(Len(log[e].path) + 1)
    /\ (result.state = "raised" /\ result.error = "cycle among the tasks") =>
          /\ Cyclic(Len(result.path) + 1)
          /\ stack = <<>>
    /\ (stack = <<>> /\ Cyclic(1)) =>
          /\ result.state = "raised"
          /\ result.error = "cycle among the tasks"
          /\ log = <<>>

\* The graph run as task b of the root has a cycle between its two tasks: task
\* a of the root ran, the nested call raised at its entry.
C20_Witness ==
    /\ result.state = "raised"
    /\ result.error = "cycle among the tasks"
    /\ result.path = <<"b">>
    /\ pipeline.nested.wiring = [a |-> "b", b |-> "a"]
    /\ DispatchedTasks(<<>>) = {"a", "b"}
    /\ DispatchedTasks(<<"b">>) = {}

\* The call of get_outputs_from_executor_output on a raw message has ended.
Normalized == codec.x \in RawMessages /\ codec.pc = "normalized"
NormalizerRaised == codec.x \in RawMessages /\ codec.pc = "raised"

\* The artifacts the raw message returned under an output, and whether the
\* output is declared a list.
RawArtifacts(key) == codec.x.executor_output.artifacts[key]
DeclaredList(key) == codec.x.component_spec.output_definitions.artifacts[key].is_artifact_list

\* C21: for an output declared a single artifact the normalization fails when
\* the raw message carries no artifact or more than one artifact for it, and
\* returns the artifact when there is exactly one; for an output declared an
\* artifact list it returns all the artifacts, in order.
C21_SingleArtifactCardinality ==
    (codec.x \in RawMessages /\ codec.pc \in {"normalized", "raised"}) =>
        \A key \in DOMAIN codec.x.executor_output.artifacts :
            /\ (~DeclaredList(key) /\ Len(RawArtifacts(key)) # 1) => codec.pc = "raised"
            /\ (Normalized /\ ~DeclaredList(key)) =>
                  /\ codec.y.outputs[key].t = "Artifact"
                  /\ codec.y.outputs[key].v.uri = RawArtifacts(key)[1].uri
            /\ (Normalized /\ DeclaredList(key)) =>
                  /\ codec.y.outputs[key].t = "list"
                  /\ Len(codec.y.outputs[key].v) = Len(RawArtifacts(key))
                  /\ \A i \in 1..Len(RawArtifacts(key)) :
                        codec.y.outputs[key].v[i].v.uri = RawArtifacts(key)[i].uri

\* The graph level a nested graph runs in, and the task of it the graph is.
ParentPath(path) == SubSeq(path, 1, Len(path) - 1)
TaskOfPath(path) == path[Len(path)]

\* The store of the level that popped the task a nested graph runs as.
ParentStore(path) ==
    stores[log[CHOOSE j \in Idx("pop", ParentPath(path), TaskOfPath(path)) : TRUE].store]

\* The output keys a store has for a task.
OutputKeys(store, task) == {e[2] : e \in {d \in DOMAIN store.task_output_data : d[1] = task}}

\* C22: when a nested graph returned SUCCESS, the store of the calling level
\* holds, under the name of the task the graph ran as, exactly the output map
\* the nested run_dag call returned, written after the return; a later task of
\* the calling level that consumes (nested-graph task, key) is given that value.
C22_NestedOutputsRecorded ==
    \A r \in EventsOf("return") :
        (log[r].path # <<>> /\ log[r].status = SUCCESS) =>
            LET parent == ParentPath(log[r].path)
                task == TaskOfPath(log[r].path)
                store == ParentStore(log[r].path)
            IN /\ OutputKeys(store, task) = DOMAIN log[r].outputs
               /\ \A k \in DOMAIN log[r].outputs :
                     /\ get_task_output(store, task, k) = log[r].outputs[k]
                     /\ \E w \in Idx("write", parent, task) :
                           w > r /\ log[w].key = k /\ log[w].value = log[r].outputs[k]
               /\ \A w \in Idx("write", parent, task) :
                     w > r /\ log[w].key \in DOMAIN log[r].outputs
               /\ \A s \in inflight :
                     (s.path = parent /\ TaskSpecAt(parent, s.task).inputs.parameters # EmptyDict) =>
                        \A n \in DOMAIN TaskSpecAt(parent, s.task).inputs.parameters :
                           LET input_spec == TaskSpecAt(parent, s.task).inputs.parameters[n]
                           IN ( /\ HasField(input_spec, "task_output_parameter")
                                /\ input_spec.task_output_parameter.producer_task = task
                                /\ input_spec.task_output_parameter.output_parameter_key
                                      \in DOMAIN log[r].outputs )
                              => s.arguments[n] =
                                    log[r].outputs[input_spec.task_output_parameter
                                                       .output_parameter_key]

\* Task b of the root is a nested graph that returned SUCCESS with y: the root
\* store holds that y for b, and task c, which consumes b's y, is running with
\* it as its argument.
C22_Witness ==
    \E r \in EventsOf("return") :
        /\ log[r].path = <<"b">>
        /\ log[r].status = SUCCESS
        /\ log[r].outputs["y"] = PyInt(1)
        /\ get_task_output(stores[1], "b", "y") = PyInt(1)
        /\ \E s \in inflight :
              s.path = <<>> /\ s.task = "c" /\ s.arguments["p"] = PyInt(1)

\* The store id of the level a task was popped in.
StoreIdOf(path, task) == log[CHOOSE j \in Idx("pop", path, task) : TRUE].store

\* C23: a task that fails leaves the store of its graph level as it was: no
\* output of the failing task is written, the outputs recorded for the tasks
\* that succeeded before it are still in the store with the values written, the
\* store holds nothing else, and the call of that level returns an empty
\* outputs map.
C23_FailureLeavesStore ==
    \A i \in Failures :
        LET path == log[i].path
            task == log[i].task
            id == StoreIdOf(path, task)
            earlier == {w \in EventsOf("write") : log[w].store = id}
        IN /\ Idx("write", path, task) = {}
           /\ OutputKeys(stores[id], task) = {}
           /\ \A w \in earlier :
                 /\ w < i
                 /\ log[w].task # task
                 /\ get_task_output(stores[id], log[w].task, log[w].key) = log[w].value
                 /\ \E st \in Idx("status", path, log[w].task) :
                       st < w /\ log[st].status = SUCCESS
           /\ DOMAIN stores[id].task_output_data =
                 {<<log[w].task, log[w].key>> : w \in earlier}
           /\ \A r \in EventsOf("return") :
                 log[r].path = path => r > i /\ log[r].outputs = EmptyDict
           /\ \A k \in 1..Len(stack) :
                 (stack[k].path = path /\ stack[k].pc = "return") =>
                     stack[k].ret.outputs = EmptyDict

\* In the chain a -> b -> c task a succeeded with y = 1 and b failed handing
\* back a y of its own: the root store still has a's y and nothing of b, and
\* the call returned no outputs.
C23_Witness ==
    /\ result.state = "returned"
    /\ result.ret.status = FAILURE
    /\ result.ret.outputs = EmptyDict
    /\ Failures # {}
    /\ log[FirstFailure].path = <<>>
    /\ log[FirstFailure].task = "b"
    /\ get_task_output(stores[1], "a", "y") = PyInt(1)
    /\ DOMAIN stores[1].task_output_data = {<<"a", "y">>}

\* The declared type of an output parameter of the step, the text of its
\* output file, and the parameters that have such a file.
DeclaredType(key) == codec.x.component_spec.output_definitions.parameters[key].parameter_type
FileText(key) == codec.x.files[codec.x.executor_input.outputs.parameters[key].output_file]
FromFile == WrittenFiles(codec.x.executor_input, codec.x.files)

\* The same native value; a number that json.loads read as an integer is the
\* same as the float the wire format carries it as.
SameValue(v, w) ==
    \/ v = w
    \/ v.t = "float" /\ w.t = "int" /\ v.v = 2 * w.v

DeclaredArtifactType(key) == codec.x.executor_input.outputs.artifacts[key].artifacts[1].type

\* C25: after the first step of the normalization every artifact the raw
\* message returned under an output key has the type of the artifact slot
\* declared for that key, whatever type it came with, and the uri and metadata
\* it came with; the artifacts handed back at the end carry that type.
C25_ArtifactTypeAttached ==
    (codec.x \in RawMessages /\ codec.pc \in {"normalized", "raised"} /\ ~codec.z.raised) =>
        /\ DOMAIN codec.z.outputs = DOMAIN codec.x.executor_output.artifacts
        /\ \A key \in DOMAIN codec.z.outputs :
              /\ Len(codec.z.outputs[key]) = Len(RawArtifacts(key))
              /\ \A i \in 1..Len(RawArtifacts(key)) :
                    /\ codec.z.outputs[key][i].type = DeclaredArtifactType(key)
                    /\ codec.z.outputs[key][i].uri = RawArtifacts(key)[i].uri
                    /\ codec.z.outputs[key][i].metadata = RawArtifacts(key)[i].metadata
              /\ Normalized =>
                    IF DeclaredList(key)
                    THEN \A i \in 1..Len(RawArtifacts(key)) :
                            codec.y.outputs[key].v[i].v = codec.z.outputs[key][i]
                    ELSE codec.y.outputs[key].v = codec.z.outputs[key][1]

\* The step returned, under art, an artifact typed system.Model with metadata,
\* and under model an artifact without type: art comes back typed
\* system.Dataset as declared, with its metadata, the artifact of model typed
\* system.Model.
C25_Witness ==
    /\ Normalized
    /\ DOMAIN codec.x.executor_output.artifacts = {"art", "model"}
    /\ RawArtifacts("art") =
          <<[uri |-> "/out/art", type |-> "system.Model", metadata |-> [rows |-> PyInt(1)]]>>
    /\ Len(RawArtifacts("model")) = 1
    /\ RawArtifacts("model")[1].type = ""
    /\ codec.y.outputs["art"].v =
          [uri |-> "/out/art", type |-> "system.Dataset", metadata |-> [rows |-> PyInt(1)]]
    /\ codec.y.outputs["model"].v[1].v.type = "system.Model"

\* An int is somewhere in a native value.
RECURSIVE HasInt(_)
HasInt(value) ==
    CASE value.t = "int" -> TRUE
      [] value.t = "list" -> \E i \in 1..Len(value.v) : HasInt(value.v[i])
      [] value.t = "dict" -> \E k \in DOMAIN value.v : HasInt(value.v[k])
      [] OTHER -> FALSE

\* The output parameters of the step declared integers.
TypedInt ==
    {k \in DOMAIN codec.x.component_spec.output_definitions.parameters :
        DeclaredType(k) = "NUMBER_INTEGER"}

\* The outputs of the step are known and not yet in the store / are in it.
BeforeInsertion == Normalized /\ stores = <<>>
AfterInsertion == codec.x \in RawMessages /\ codec.pc = "recorded"

OutputParameters == DOMAIN codec.w.outputs \ DOMAIN codec.x.executor_output.artifacts

\* C26 as stated: the decoded value of a declared-integer output goes into the
\* store first and is cast afterwards: until the outputs are in the store, the
\* number decoded for such an output is still the float the codec made, and the
\* codec never makes an int.
C26_CastAfterInsertion ==
    /\ BeforeInsertion =>
          \A k \in TypedInt \cap OutputParameters :
              codec.w.outputs[k].t = "float" => codec.y.outputs[k] = codec.w.outputs[k]
    /\ (codec.x \in WireInputs /\ codec.pc = "decoded") => ~HasInt(codec.y)

\* C26 amended: the integer cast is the last step of the normalization, after
\* the decoded values were put in the outputs map and before run_dag puts the
\* outputs into the store, which receives the integers. It is applied to the
\* outputs declared integers and to no other: the codec never makes an int of a
\* number, and an output not declared an integer stays as decoded.
C26_CastBeforeInsertion ==
    /\ (BeforeInsertion \/ AfterInsertion) =>
          /\ \A k \in OutputParameters : ~HasInt(codec.w.outputs[k])
          /\ \A k \in TypedInt \cap OutputParameters :
                codec.y.outputs[k].t = "int" /\ codec.y.outputs[k] = int(codec.w.outputs[k])
          /\ \A k \in OutputParameters \ TypedInt :
                codec.y.outputs[k] = codec.w.outputs[k]
    /\ BeforeInsertion => log = <<>>
    /\ AfterInsertion =>
          /\ Len(stores) = 1
          /\ \A k \in DOMAIN codec.y.outputs :
                /\ get_task_output(stores[1], StepTask, k) = codec.y.outputs[k]
                /\ \E i \in 1..Len(log) :
                      /\ log[i].ev = "write"
                      /\ log[i].key = k
                      /\ log[i].value = codec.y.outputs[k]
    /\ (codec.x \in WireInputs /\ codec.pc = "decoded") => ~HasInt(codec.y)

\* The step returned y = 3.0 for an output declared an integer and n = 1.0 for
\* one declared a double: the store received the int 3 and the float 1.0.
C26_Witness ==
    /\ AfterInsertion
    /\ DOMAIN codec.x.component_spec.output_definitions.parameters = {"y", "n"}
    /\ DeclaredType("y") = "NUMBER_INTEGER"
    /\ DeclaredType("n") = "NUMBER_DOUBLE"
    /\ codec.w.outputs["y"] = PyFloat(6)
    /\ get_task_output(stores[1], StepTask, "y") = PyInt(3)
    /\ get_task_output(stores[1], StepTask, "n") = PyFloat(2)

WireTags ==
    {"null_value", "number_value", "string_value", "bool_value", "struct_value",
     "list_value"}

\* Some part of a wire value, itself or nested in its lists and structures,
\* carries none of the tags.
RECURSIVE Untagged(_)
Untagged(value) ==
    \/ value.kind \notin WireTags
    \/ value.kind = "list_value" /\ \E i \in 1..Len(value.val) : Untagged(value.val[i])
    \/ value.kind = "struct_value" /\ \E k \in DOMAIN value.val : Untagged(value.val[k])

NativeTypes == {"NoneType", "float", "int", "str", "bool", "list", "dict"}

\* C27: decoding a wire value that carries no tag, or that holds such a value
\* at any depth of its lists and structures, fails with the decoding error and
\* returns no native value, not even that of the parts that are tagged; every
\* other wire value is decoded.
C27_UntaggedRaises ==
    (codec.x \in WireInputs /\ codec.pc \in {"decoded", "raised", "decoded-encoded"}) =>
        /\ Untagged(codec.x) <=> codec.pc = "raised"
        /\ codec.pc = "raised" =>
              /\ codec.y = ValueError("Unknown value type")
              /\ codec.y.t \notin NativeTypes
              /\ codec.z = PyNone
        /\ codec.pc # "raised" => codec.y.t \in NativeTypes

\* A list holding a structure whose one field carries no tag: the call raised.
C27_Witness ==
    /\ codec.x = ListValue(<<StructValue([k \in Keys |-> UnsetValue])>>)
    /\ codec.pc = "raised"
    /\ codec.y = ValueError("Unknown value type")

\* The events of one kind about one task of one activation, before an event.
Before(ev, path, task, r) == {i \in Idx(ev, path, task) : i < r}

\* C28: a run_dag call returns SUCCESS only when every task of its graph was
\* popped once, dispatched once and reported SUCCESS once, in that order, and
\* every task that is a nested graph had its own call return SUCCESS in
\* between; no task of the level is left in the sequence.
C28_SuccessMeansAllRan ==
    /\ \A r \in EventsOf("return") :
          log[r].status = SUCCESS =>
              \A t \in DagTasksAt(log[r].path) :
                  /\ Cardinality(Before("pop", log[r].path, t, r)) = 1
                  /\ Cardinality(Before("dispatch", log[r].path, t, r)) = 1
                  /\ Cardinality(Before("status", log[r].path, t, r)) = 1
                  /\ \A d \in Before("dispatch", log[r].path, t, r) :
                        \A st \in Before("status", log[r].path, t, r) :
                            /\ d < st
                            /\ log[st].status = SUCCESS
                            /\ log[d].kind = "dag" =>
                                  \E n \in EventsOf("return") :
                                      /\ d < n /\ n < st
                                      /\ log[n].path = Append(log[r].path, t)
                                      /\ log[n].status = SUCCESS
    /\ \A k \in 1..Len(stack) :
          (stack[k].pc = "return" /\ stack[k].ret.status = SUCCESS) =>
              /\ stack[k].sorted_tasks = <<>>
              /\ \A t \in DagTasksAt(stack[k].path) :
                    \E st \in Idx("status", stack[k].path, t) : log[st].status = SUCCESS
    /\ (result.state = "returned" /\ result.ret.status = SUCCESS) =>
          /\ inflight = {}
          /\ \A t \in RootTasksSet : Cardinality(Idx("dispatch", <<>>, t)) = 1

\* The root graph whose task b is a nested graph returned SUCCESS: its three
\* tasks and the two tasks of the nested graph ran once each.
C28_Witness ==
    /\ result.state = "returned"
    /\ result.ret.status = SUCCESS
    /\ pipeline.root.roles["b"] = "dag"
    /\ DispatchedTasks(<<>>) = {"a", "b", "c"}
    /\ DispatchedTasks(<<"b">>) = {"a", "b"}
    /\ Cardinality(EventsOf("dispatch")) = 5
    /\ Cardinality({r \in EventsOf("return") : log[r].status = SUCCESS}) = 2

\* The top-level call of run_dag has ended, with a result triple or an error.
Ended == stack = <<>> /\ result.state \in {"returned", "raised"}

\* A pass of the loop takes one task off the pending sequence of its
\* activation, unless it raises.
PassRemovesOneTask ==
    (stack # <<>> /\ stack[Len(stack)].pc = "loop" /\ stack[Len(stack)].sorted_tasks # <<>>) =>
        \/ stack' = <<>>
        \/ /\ Len(stack') >= Len(stack)
           /\ Len(stack'[Len(stack)].sorted_tasks)
                 = Len(stack[Len(stack)].sorted_tasks) - 1

\* The activations on the stack are those of the graphs nested in each other.
DepthIsNesting ==
    /\ Len(stack) <= MaxDepth
    /\ \A k \in 1..Len(stack) :
          /\ Len(stack[k].path) = k - 1
          /\ stack[k].component_name = DagNames[k]
          /\ Len(stack[k].sorted_tasks) <= Cardinality(DagTasksAt(stack[k].path))

\* C29: when every collaborator call returns, run_dag eventually ends, with a
\* result triple or an error: every pass of the loop shortens the pending
\* sequence of its activation by one task, and there are never more nested
\* activations than graph levels.
C29_Terminates ==
    /\ <>Ended
    /\ [][PassRemovesOneTask]_vars
    /\ []DepthIsNesting

\* The run of a root graph with a nested graph has ended after the nested
\* activation had been on the stack and all tasks of both levels had run.
C29_Witness ==
    /\ Ended
    /\ result.state = "returned"
    /\ Cardinality(Idx("pop", <<>>, "a") \cup Idx("pop", <<>>, "b")
                   \cup Idx("pop", <<>>, "c")) = 3
    /\ Cardinality(Idx("pop", <<"b">>, "a") \cup Idx("pop", <<"b">>, "b")) = 2
    /\ \E r \in EventsOf("return") : log[r].path = <<"b">>

\* The activations that wait for a nested call: all but the topmost.
Callers == 1..(Len(stack) - 1)

\* While its nested call is under way nothing is recorded for the task that is
\* the nested graph, and the writes of the nested run went to its own store.
NothingRecordedYet ==
    \A k \in Callers :
        /\ stack[k].pc = "call"
        /\ OutputKeys(stores[stack[k].io_store], stack[k].task_name) = {}
        /\ Idx("write", stack[k].path, stack[k].task_name) = {}
        /\ \A w \in EventsOf("write") :
              log[w].path = stack[k + 1].path => log[w].store = stack[k + 1].io_store

\* A step leaves the store of every calling level as it is, but for the step in
\* which the nested call returns SUCCESS to its caller, which puts the returned
\* outputs into the caller's store.
CallerStoresKept ==
    \A k \in Callers :
        LET id == stack[k].io_store
            top == stack[Len(stack)]
        IN \/ stores'[id] = stores[id]
           \/ /\ k = Len(stack) - 1
              /\ Len(stack') = k
              /\ top.pc = "return"
              /\ top.ret.status = SUCCESS
              /\ stores'[id] = put_task_outputs(stores[id], stack[k].task_name,
                                                top.ret.outputs)

\* A nested call that returns FAILURE leaves every store as it is.
NestedFailureWritesNothing ==
    (Len(stack) >= 2 /\ stack[Len(stack)].pc = "return"
         /\ stack[Len(stack)].ret.status = FAILURE)
    => stores' = stores

\* C30: while a task that is a nested graph runs, the store of the calling
\* level is not modified: the nested run writes to its own store only, the
\* calling level's store gets the outputs of the task in the step in which the
\* nested call returns SUCCESS and not before, and on FAILURE it gets nothing.
C30_ParentStoreUntouched ==
    /\ []NothingRecordedYet
    /\ [][CallerStoresKept /\ NestedFailureWritesNothing]_vars

\* The nested graph run as task b of the root has written the outputs of both
\* its tasks to its own store and stands before its return; the root's store
\* has the output of a and nothing of b yet.
C30_Witness ==
    /\ Len(stack) = 2
    /\ stack[2].pc = "return"
    /\ stack[2].ret.status = SUCCESS
    /\ DOMAIN stores[stack[2].io_store].task_output_data = {<<"a", "y">>, <<"b", "y">>}
    /\ DOMAIN stores[stack[1].io_store].task_output_data = {<<"a", "y">>}

\* The input parameters the graph of an activation declares, and those of them
\* the call was given no argument for.
DeclaredInputs(f) == components[f.component_name].input_definitions.parameters
FromDefault(f) == DOMAIN DeclaredInputs(f) \ DOMAIN f.dag_arguments

\* The input parameters of a task that are bound to a literal constant.
ConstantInputs(path, task) ==
    {n \in DOMAIN TaskSpecAt(path, task).inputs.parameters :
        LET input_spec == TaskSpecAt(path, task).inputs.parameters[n]
        IN /\ ~HasField(input_spec, "task_output_parameter")
           /\ HasField(input_spec, "runtime_value")
           /\ input_spec.runtime_value.value = "constant"}

ConstantOf(path, task, n) ==
    pb2_value_to_python(TaskSpecAt(path, task).inputs.parameters[n].runtime_value.constant)

\* C31: run_dag does not re-type integers. The parent input a store holds for a
\* declared input left to its default is the codec's decoding of the default's
\* wire value, and the argument a step or a nested graph gets for an input
\* bound to a constant is the decoding of the constant, stored as such in the
\* nested graph's store: a number stays the codec's float, also when the input
\* is declared an integer.
C31_NoCastOfDefaultsAndConstants ==
    /\ \A i \in 1..Len(stack) :
          stack[i].pc # "entry" =>
              \A k \in FromDefault(stack[i]) :
                  /\ get_parent_input(stores[stack[i].io_store], k)
                        = pb2_value_to_python(DeclaredInputs(stack[i])[k].default_value)
                  /\ ~HasInt(get_parent_input(stores[stack[i].io_store], k))
    /\ \A s \in inflight :
          \A n \in ConstantInputs(s.path, s.task) :
              s.arguments[n] = ConstantOf(s.path, s.task, n) /\ ~HasInt(s.arguments[n])
    /\ \A i \in 2..Len(stack) :
          \A n \in ConstantInputs(stack[i - 1].path, stack[i - 1].task_name) :
              LET constant == ConstantOf(stack[i - 1].path, stack[i - 1].task_name, n)
              IN /\ stack[i].dag_arguments[n] = constant
                 /\ ~HasInt(constant)
                 /\ (stack[i].pc # "entry" /\ n \in DOMAIN DeclaredInputs(stack[i])) =>
                       get_parent_input(stores[stack[i].io_store], n) = constant

\* The input p is declared an integer with the default 3.0, and task b of the
\* root, a nested graph, is given the constant 3.0 as its p: the root's store
\* and the nested graph's store both hold the float 3.0 for p.
C31_Witness ==
    /\ Len(stack) = 2
    /\ stack[2].pc = "loop"
    /\ pipeline.inputs["p"] =
          [default_value |-> NumberValue(6), parameter_type |-> "NUMBER_INTEGER"]
    /\ pipeline.arguments = EmptyDict
    /\ pipeline.root.special = [task |-> "b", how |-> "constant_three"]
    /\ get_parent_input(stores[stack[1].io_store], "p") = PyFloat(6)
    /\ get_parent_input(stores[stack[2].io_store], "p") = PyFloat(6)

\* What the raw message and the output files provide for an output parameter
\* of the step: nothing, or a wire value.
Provided(k) ==
    \/ k \in FromFile
    \/ k \in DOMAIN codec.x.executor_output.parameter_values

ProvidedNull(k) ==
    IF k \in FromFile
    THEN DeclaredType(k) # "STRING" /\ FileText(k) = "null"
    ELSE /\ k \in DOMAIN codec.x.executor_output.parameter_values
         /\ codec.x.executor_output.parameter_values[k] = NullValue

\* C32: when the raw message and the output files of a finished step provide
\* no value, or a null, for an output parameter declared an integer,
\* get_outputs_from_executor_output raises; the map it returns otherwise has
\* every declared-integer output, none of them None.
C32_IntegerOutputRequired ==
    (codec.x \in RawMessages /\ codec.pc \in {"normalized", "raised", "recorded"}) =>
        /\ (\E k \in TypedInt : ~Provided(k) \/ ProvidedNull(k)) =>
              /\ codec.pc = "raised"
              /\ codec.y = Raised
        /\ codec.pc # "raised" =>
              \A k \in TypedInt :
                  /\ Provided(k)
                  /\ k \in DOMAIN codec.y.outputs
                  /\ codec.y.outputs[k] # PyNone
                  /\ codec.w.outputs[k] # PyNone

\* The step declared y an integer and n a double and returned n only: the
\* normalization raised.
C32_Witness ==
    /\ codec.x \in RawMessages
    /\ codec.pc = "raised"
    /\ DOMAIN codec.x.component_spec.output_definitions.parameters = {"y", "n"}
    /\ DeclaredType("y") = "NUMBER_INTEGER"
    /\ DeclaredType("n") = "NUMBER_DOUBLE"
    /\ DOMAIN codec.x.executor_output.parameter_values = {"n"}
    /\ codec.x.files = EmptyDict
    /\ ~codec.w.raised

\* The declared inputs of an activation that its arguments do not have and
\* whose input spec carries no default value.
Missing(f) == {n \in FromDefault(f) : DeclaredInputs(f)[n].default_value = UnsetValue}

EventsAt(path) == {i \in 1..Len(log) : log[i].path = path}

\* An activation with a missing input stays at its entry: its store holds no
\* parent input and no task of its level was popped, dispatched or recorded.
MissingInputStopsAtEntry ==
    \A i \in 1..Len(stack) :
        Missing(stack[i]) # {} =>
            /\ stack[i].pc = "entry"
            /\ stores[stack[i].io_store] = IOStore
            /\ EventsAt(stack[i].path) = {}

\* The step such an activation takes raises the decoding error and leaves the
\* stores and the history as they were; an activation that has every input
\* writes all of them.
MissingInputRaises ==
    (stack # <<>> /\ Top.pc = "entry") =>
        IF Missing(Top) # {}
        THEN /\ stack' = <<>>
             /\ result'.state = "raised"
             /\ result'.error = "Unknown value type"
             /\ result'.path = Top.path
             /\ result'.ret = NoReturn
             /\ stores' = stores
             /\ log' = log
             /\ inflight' = inflight
        ELSE /\ DOMAIN stores'[Top.io_store].parent_input_data = DOMAIN DeclaredInputs(Top)
             /\ ~(result'.state = "raised" /\ result'.error = "Unknown value type")

\* C33: a declared parameter input of a graph level that is absent from the
\* argument map and has no default value makes run_dag raise the decoding error
\* at the entry of that level, before any parent input is written to the
\* level's store and before any task of the level is popped or dispatched.
C33_MissingInputRaisesAtEntry ==
    /\ []MissingInputStopsAtEntry
    /\ [][MissingInputRaises]_vars

\* The nested graph was called with p only, q has no default: the call raised
\* at its entry after both tasks of the root level had been dispatched, with
\* nothing in the store made for it.
C33_Witness ==
    /\ result.state = "raised"
    /\ result.error = "Unknown value type"
    /\ result.path = <<"b">>
    /\ pipeline.arguments = [q |-> PyFloat(2)]
    /\ DispatchedTasks(<<>>) = {"a", "b"}
    /\ EventsAt(<<"b">>) = {}
    /\ stores[Len(stores)] = IOStore
    /\ DOMAIN stores[1].parent_input_data = {"p", "q"}

\* The status events of the history whose status is neither SUCCESS nor FAILURE.
UnknownStatusEvents == {i \in EventsOf("status") : log[i].status \notin Status}

UnknownStatusErrors == {UnknownStatusError(u) : u \in UnknownStatuses}

\* C34: a dispatch that returns a status other than SUCCESS or FAILURE makes
\* run_dag raise an error. The outputs handed back with that status are not
\* written to the store, no task is popped or dispatched afterwards, no call of
\* run_dag at or around that level returns a result triple, and the error is
\* raised for no other reason.
C34_UnknownStatusRaises ==
    /\ \A i \in UnknownStatusEvents :
          LET path == log[i].path
              task == log[i].task
          IN /\ i = Len(log)
             /\ result.state = "raised"
             /\ result.error = UnknownStatusError(log[i].status)
             /\ result.path = path
             /\ result.ret = NoReturn
             /\ stack = <<>>
             /\ inflight = {}
             /\ Idx("write", path, task) = {}
             /\ OutputKeys(stores[StoreIdOf(path, task)], task) = {}
             /\ \A q \in EnclosingPaths(path) :
                   \A r \in EventsOf("return") : log[r].path # q
    /\ (result.state = "raised" /\ result.error \in UnknownStatusErrors) =>
          /\ UnknownStatusEvents = {Len(log)}
          /\ Idx("dispatch", log[Len(log)].path, log[Len(log)].task) # {}
    /\ \A i \in 1..Len(stack) : stack[i].ret # NoReturn => stack[i].ret.status \in Status

\* A step of the nested graph came back with None for a status after another
\* step of that graph had been recorded: the run ended with the error, and the
\* nested graph's store has the outputs of the recorded step only.
C34_Witness ==
    /\ UnknownStatusEvents # {}
    /\ result.state = "raised"
    /\ log[Len(log)].status = None
    /\ log[Len(log)].path = <<"b">>
    /\ \E w \in EventsOf("write") :
          /\ log[w].path = <<"b">>
          /\ log[w].task # log[Len(log)].task
          /\ OutputKeys(stores[log[w].store], log[w].task) # {}
    /\ OutputKeys(stores[Len(stores)], log[Len(log)].task) = {}

====
